---- MODULE Spec2Model ----
(***************************************************************************)
(* keep-streaming: the serialized write engine (WriteOperation), the       *)
(* per-path mutex registry (writeMutexes / getMutex), the default retry    *)
(* strategies of File.js and the continuous read engine (ReadOperation).   *)
(*                                                                         *)
(* The specifications share the variables: SpecWrite runs Write            *)
(* Operations only, SpecRead runs one Read Operation only.  SpecWriteLive  *)
(* and SpecReadLive add what the event loop guarantees (pending callbacks  *)
(* run); SpecReadTimeout is a Read Operation on a regular file whose       *)
(* streams only fail by their read timeout.  SpecWriteQueue runs           *)
(* MaxWriters Write Operations on one path, SpecWriteAlias two Write       *)
(* Operations on two path strings of one file, SpecReadWrite a Read and a  *)
(* Write Operation side by side, and SpecRoundTrip a write followed by a   *)
(* read of the bytes written.  SpecWriteTwoPaths runs two Write            *)
(* Operations on different path strings; SpecUndefined gives every         *)
(* strategy slot a function that returns undefined; SpecFailing has        *)
(* destinations and sources that only fail, under the default strategies;  *)
(* SpecReadDataThenFail is a Read Operation whose every stream delivers    *)
(* data and then fails.                                                    *)
(*                                                                         *)
(* Environment assumptions (Node.js fs / stream, another-mutex):           *)
(*  - Mutex.lock() never rejects, grants in request order, and the unlock  *)
(*    function of a grant only releases that grant (a repeated call leaves *)
(*    the lock as it is).                                                  *)
(*  - a write stream that was end()ed emits exactly one of 'finish' and    *)
(*    'error'; a write stream that was never end()ed can only emit 'error' *)
(*    (its asynchronous open failed).                                      *)
(*  - Writable.write() throws synchronously when the chunk is neither a    *)
(*    string nor a Buffer.                                                 *)
(*  - a read stream is created with autoClose:false, emitClose:false: it   *)
(*    is not destroyed by 'end' or 'error', never emits 'close', and       *)
(*    destroy(err) on a stream that is not yet destroyed emits 'error'.    *)
(*  - path strings are valid fs arguments: fs.access, fs.mkdir and         *)
(*    createReadStream do not throw synchronously, so the .catch of        *)
(*    WriteOperation._execute and the catch of ReadOperation._performRead  *)
(*    have no step of their own; fs.writeFileSync in finish() succeeds.    *)
(*  - timers carry their delay but fire in any order.                      *)
(***************************************************************************)
EXTENDS Integers, Sequences, FiniteSets, Bags, TLC

\* ------------------------------------------------------------------ bounds
NumWriters == 2
MaxWriters == 3
MaxAttempt == 3
MaxStreams == 3
MaxFileStreams == 5
MaxChunks == 2
MaxCount == 2
\* the read buffer (highWaterMark) in bytes, scaled down from 1024
HighWaterMark == 2

\* -------------------------------------------------------------- constants
RegularMaxAttempts == 5
DeviceMaxAttempts == 10
RegularBackoff == 1000
DeviceBackoff == 2000
DeviceBackoffCap == 5
StreamMaxAttempts == 5
StreamRetryDelay == 100
NonNumberDelay == 1
ReconnectDelay == 50

\* the delay a caller-supplied strategy returns when it returns a number
CustomDelay == 7

\* ------------------------------------------------------------------ paths
\* Path strings the operations are constructed with, and what the
\* filesystem answers about them.
Paths == {"/tmp/d/a", "/tmp/d/./a", "a", "/tmp/fifo", "/dev/tty", "/dev/sda", "/dev/shm/f"}

\* filePath.startsWith('/dev/')
startsWithDev(p) == p \in {"/dev/tty", "/dev/sda", "/dev/shm/f"}

\* filePath.substring(0, filePath.lastIndexOf('/'))
parentDir(p) ==
  CASE p = "/tmp/d/a" -> "/tmp/d"
    [] p = "/tmp/d/./a" -> "/tmp/d/."
    [] p = "a" -> ""
    [] p = "/tmp/fifo" -> "/tmp"
    [] p = "/dev/tty" -> "/dev"
    [] p = "/dev/sda" -> "/dev"
    [] p = "/dev/shm/f" -> "/dev/shm"

\* what fs.statSync(path) reports
statKind(p) ==
  CASE p = "/tmp/fifo" -> "fifo"
    [] p = "/dev/tty" -> "char"
    [] p = "/dev/sda" -> "block"
    [] OTHER -> "file"

\* the file the filesystem resolves a path string to, named by its
\* normalized path
resolves(p) == IF p = "/tmp/d/./a" THEN "/tmp/d/a" ELSE p

\* ----------------------------------------------------------------- errors
FsError(code, p) == [code |-> code, message |-> "fs", attempt |-> 0, path |-> p]
NewError(msg, attempt, p) == [code |-> "none", message |-> msg, attempt |-> attempt, path |-> p]
NoError == [code |-> "none", message |-> "none", attempt |-> 0, path |-> ""]

ExistsErrorCodes == {"ENOENT", "EACCES"}
StreamErrorCodes == {"EIO"}

\* --------------------------------------------------- retry strategies
\* A strategy result: a number (delay), a non-number, or a raised value.
Delay(d) == [kind |-> "number", delay |-> d, error |-> NoError]
NonNumber == [kind |-> "nonNumber", delay |-> 0, error |-> NoError]
Raise(e) == [kind |-> "raise", delay |-> 0, error |-> e]

Min(a, b) == IF a < b THEN a ELSE b

\* the default existence strategy giving up one attempt later
defaultReadFileExistsRetryStrategy_OneMore(error, attempt, information) ==
  IF error.code = "ENOENT"
  THEN IF startsWithDev(information)
       THEN IF attempt > DeviceMaxAttempts
            THEN Raise(NewError("Device not available after retries", attempt, information))
            ELSE Delay(DeviceBackoff * Min(attempt, DeviceBackoffCap))
       ELSE IF attempt > RegularMaxAttempts
            THEN Raise(NewError("File not found after retries", attempt, information))
            ELSE Delay(RegularBackoff * attempt)
  ELSE Raise(error)

defaultReadFileExistsRetryStrategy(error, attempt, information) ==
  IF error.code = "ENOENT"
  THEN IF startsWithDev(information)
       THEN IF attempt >= DeviceMaxAttempts
            THEN Raise(NewError("Device not available after retries", attempt, information))
            ELSE Delay(DeviceBackoff * Min(attempt, DeviceBackoffCap))
       ELSE IF attempt >= RegularMaxAttempts
            THEN Raise(NewError("File not found after retries", attempt, information))
            ELSE Delay(RegularBackoff * attempt)
  ELSE Raise(error)

defaultReadFileRetryStrategy(error, attempt, information) ==
  IF attempt >= StreamMaxAttempts
  THEN Raise(NewError("Failed to read file after retries", attempt, information))
  ELSE Delay(StreamRetryDelay)

\* the default write existence strategy retrying whatever the error is
defaultWriteFileExistsRetryStrategy_AnyCode(error, attempt, information) ==
  IF startsWithDev(information)
  THEN IF attempt >= DeviceMaxAttempts
       THEN Raise(NewError("Device not available after retries", attempt, information))
       ELSE Delay(DeviceBackoff * Min(attempt, DeviceBackoffCap))
  ELSE IF attempt >= RegularMaxAttempts
       THEN Raise(NewError("File not found after retries", attempt, information))
       ELSE Delay(RegularBackoff * attempt)

defaultWriteFileExistsRetryStrategy(error, attempt, information) ==
  IF error.code = "ENOENT"
  THEN IF startsWithDev(information)
       THEN IF attempt >= DeviceMaxAttempts
            THEN Raise(NewError("Device not available after retries", attempt, information))
            ELSE Delay(DeviceBackoff * Min(attempt, DeviceBackoffCap))
       ELSE IF attempt >= RegularMaxAttempts
            THEN Raise(NewError("File not found after retries", attempt, information))
            ELSE Delay(RegularBackoff * attempt)
  ELSE Raise(error)

\* the default write strategy giving up one attempt later
defaultWriteFileRetryStrategy_OneMore(error, attempt, information) ==
  IF attempt > StreamMaxAttempts
  THEN Raise(NewError("Failed to write to file after retries", attempt, information))
  ELSE Delay(StreamRetryDelay)

defaultWriteFileRetryStrategy(error, attempt, information) ==
  IF attempt >= StreamMaxAttempts
  THEN Raise(NewError("Failed to write to file after retries", attempt, information))
  ELSE Delay(StreamRetryDelay)

\* What a caller-supplied strategy may answer: any of the three kinds.  The
\* retrying answers stop at MaxAttempt so that the attempt counter is bounded.
CustomStrategy(error, attempt, information) ==
  {Raise(NewError("custom", attempt, information)), Raise(error)}
  \cup (IF attempt < MaxAttempt THEN {Delay(CustomDelay), NonNumber} ELSE {})

\* A caller-supplied strategy that returns undefined: it neither throws nor
\* names a delay.  It gives up at MaxAttempt so that the attempt counter is
\* bounded.
UndefinedStrategy(error, attempt, information) ==
  IF attempt < MaxAttempt THEN NonNumber
  ELSE Raise(NewError("custom", attempt, information))

StrategyKinds == {"default", "custom"}


\* ------------------------------------------------------------ state
VARIABLES
  options,        \* File._options: the strategies in force and readTimeout
  wop,            \* per Write Operation: _filePath and _data
  writeMutexes,   \* the registry: path -> mutex (holder, waiting acquirers)
  wpc,            \* per Write Operation: where its asynchronous chain stands
  wattempt,       \* per Write Operation: the attempt argument of the pending step
  wdelay,         \* per Write Operation: the delay of its pending timer
  unlockCalls,    \* per Write Operation: calls of its unlock function
  wfinishCalls,   \* per Write Operation: invocations of _finishCallback
  werrorCalls,    \* per Write Operation: invocations of _errorCallback
  wlastError,     \* per Write Operation: the value last given to _errorCallback
  heldAtCallback, \* per Write Operation: it held the lock when a callback fired
  afterTerminal,  \* per Write Operation: stream opens / strategy calls after a callback
  content,        \* path -> bytes stored in the regular file at that path
  writeLog,       \* Write Operations in the order of their write() calls
  grantLog,       \* Write Operations in the order the lock was granted
  termLog         \* Write Operations in the order of their first callback invocation

wvars == <<options, wop, writeMutexes, wpc, wattempt, wdelay, unlockCalls,
           wfinishCalls, werrorCalls, wlastError, heldAtCallback, afterTerminal,
           content, writeLog, grantLog, termLog>>

VARIABLES
  rpath,            \* the Read Operation's _filePath
  rstarted,         \* read() has been called
  stopReading,      \* _stopReading
  isFinished,       \* _isFinished
  activeStream,     \* _activeStream: index into streams, 0 for null
  streams,          \* the read streams created so far, in creation order
  activeTimeouts,   \* armed _setTimeout timers (bag of callbacks)
  raccess,          \* attempt of the fs.access call in flight, 0 for none
  rchunks,          \* 'data' events emitted so far by the streams
  rdataCalls,       \* invocations of _dataCallback
  rfinishCalls,     \* invocations of _finishCallback
  rerrorCalls,      \* invocations of _errorCallback
  rlastError,       \* the value last given to _errorCallback
  lastDataAttempt,  \* the attempt last given to _dataCallback
  finishInvoked,    \* finish() has been called
  naturalFinish,    \* _finishCallback was invoked by a non-FIFO 'end'
  dataAfterFinish,  \* _dataCallback was invoked after a finish() call
  dataAfterError,   \* _dataCallback was invoked after _errorCallback
  finishCbAfterFinish, \* _finishCallback was invoked after a finish() call returned
  fromDataFired,    \* _finishCallback invocations made by the first finish() called in onData, -1 before
  lateFinishFired,  \* a finish() call invoked _finishCallback on a Finished / Errored operation
  drainCalls,       \* fs.writeFileSync(path, '') calls made by finish()
  repeatFinish,     \* finish() calls after the first: 0 none, 1 without effect, 2 one took effect
  received,         \* the bytes given to _dataCallback so far, where the source's bytes are known
  askedAttempt      \* the attempt last given to a read strategy in this phase, 0 at its start and after a reset

rvars == <<rpath, rstarted, stopReading, isFinished, activeStream, streams, activeTimeouts,
           raccess, rchunks, rdataCalls, rfinishCalls, rerrorCalls, rlastError, lastDataAttempt,
           finishInvoked, naturalFinish, dataAfterFinish, dataAfterError,
           finishCbAfterFinish, fromDataFired, lateFinishFired, drainCalls,
           repeatFinish, received, askedAttempt>>

vars == <<wvars, rvars>>

\* the Write Operations of a behaviour: those constructed in its initial state
Writers == DOMAIN wpc

\* ------------------------------------------------------- the mutex
\* A registry slot: has = writeMutexes.has(path); holder = 0 when free.
NoMutex == [has |-> FALSE, holder |-> 0, queue |-> <<>>]
NewMutex == [has |-> TRUE, holder |-> 0, queue |-> <<>>]

\* one lock for every path
mutexKey_OneLock(filePath) == "a"

\* the key under which the registry holds the mutex of a path: the path
\* string as given
mutexKey(filePath) == filePath

\* getMutex(filePath): the registry after the lookup
getMutex(registry, filePath) ==
  IF registry[filePath].has
  THEN registry
  ELSE [registry EXCEPT ![filePath] = NewMutex]

\* a mutex that serves the latest request first
MutexLock_Lifo(m, i) ==
  IF m.holder = 0 /\ m.queue = <<>>
  THEN [m EXCEPT !.holder = i]
  ELSE [m EXCEPT !.queue = <<i>> \o @]

\* a mutex that makes every acquirer wait
MutexLock_AlwaysWaits(m, i) == [m EXCEPT !.queue = Append(@, i)]

\* mtx.lock() requested by operation i
MutexLock(m, i) ==
  IF m.holder = 0 /\ m.queue = <<>>
  THEN [m EXCEPT !.holder = i]
  ELSE [m EXCEPT !.queue = Append(@, i)]

\* the unlock function handed to operation i
MutexUnlock(m, i) ==
  IF m.holder # i THEN m
  ELSE IF m.queue = <<>> THEN [m EXCEPT !.holder = 0]
  ELSE [m EXCEPT !.holder = Head(m.queue), !.queue = Tail(m.queue)]

\* --------------------------------------------------------- payloads
\* typeof data === 'string' -> written as utf8; a Buffer is written as is;
\* anything else makes writeStream.write throw.
DataInputs(i) ==
  { IF i % 2 = 1 THEN [type |-> "string", bytes |-> <<i>>]
                 ELSE [type |-> "buffer", bytes |-> <<i, i>>],
    [type |-> "other", bytes |-> <<>>] }

writeThrows(data) == data.type \notin {"string", "buffer"}

\* the UTF-8 encoding of a string given as its code points (below 2048)
RECURSIVE utf8(_)
utf8(str) ==
  IF str = <<>> THEN <<>>
  ELSE IF Head(str) < 128
       THEN <<Head(str)>> \o utf8(Tail(str))
       ELSE <<192 + (Head(str) \div 64), 128 + (Head(str) % 64)>> \o utf8(Tail(str))

\* the bytes writeStream.write hands to the file: write(data, 'utf8') for a
\* string, write(data) for a Buffer
encoded(data) == IF data.type = "string" THEN utf8(data.bytes) ELSE data.bytes

\* ------------------------------------------------- _createWriteStream
\* every path opened without truncation
createWriteStreamFlags_NoTruncate(p) == "r+"

\* the open flags _createWriteStream selects
createWriteStreamFlags(p) ==
  IF startsWithDev(p)
  THEN IF statKind(p) = "char" THEN "r+"
       ELSE IF statKind(p) = "block" THEN "w"
       ELSE "r+"
  ELSE "w"

\* the stored bytes after n bytes of the payload went through a stream that
\* was opened with the given flags
Stored(old, bytes, n, flags) ==
  IF flags = "w" THEN SubSeq(bytes, 1, n)
  ELSE SubSeq(bytes, 1, n) \o SubSeq(old, n + 1, Len(old))

hasContent(p) == statKind(p) = "file"

\* ------------------------------------------------------------ Init
\* a Read Operation right after construction, on path p
ReadConstructed(p) ==
  /\ rpath = p
  /\ rstarted = FALSE
  /\ stopReading = FALSE
  /\ isFinished = FALSE
  /\ activeStream = 0
  /\ streams = <<>>
  /\ activeTimeouts = EmptyBag
  /\ raccess = 0
  /\ rchunks = 0
  /\ rdataCalls = 0
  /\ rfinishCalls = 0
  /\ rerrorCalls = 0
  /\ rlastError = NoError
  /\ lastDataAttempt = 0
  /\ finishInvoked = FALSE
  /\ naturalFinish = FALSE
  /\ dataAfterFinish = FALSE
  /\ dataAfterError = FALSE
  /\ finishCbAfterFinish = FALSE
  /\ fromDataFired = -1
  /\ lateFinishFired = FALSE
  /\ drainCalls = 0
  /\ repeatFinish = 0
  /\ received = <<>>
  /\ askedAttempt = 0

\* no Read Operation takes part
ReadIdle == ReadConstructed("a")

\* no Write Operation takes part
WriteIdle ==
  /\ wop = [i \in 1..NumWriters |-> [path |-> "a", data |-> [type |-> "string", bytes |-> <<>>]]]
  /\ writeMutexes = [p \in Paths |-> NoMutex]
  /\ wpc = [i \in 1..NumWriters |-> "new"]
  /\ wattempt = [i \in 1..NumWriters |-> 0]
  /\ wdelay = [i \in 1..NumWriters |-> 0]
  /\ unlockCalls = [i \in 1..NumWriters |-> 0]
  /\ wfinishCalls = [i \in 1..NumWriters |-> 0]
  /\ werrorCalls = [i \in 1..NumWriters |-> 0]
  /\ wlastError = [i \in 1..NumWriters |-> NoError]
  /\ heldAtCallback = [i \in 1..NumWriters |-> FALSE]
  /\ afterTerminal = [i \in 1..NumWriters |-> 0]
  /\ content = [p \in Paths |-> <<>>]
  /\ writeLog = <<>>
  /\ grantLog = <<>>
  /\ termLog = <<>>

WritePaths == {"/tmp/d/a", "/tmp/fifo", "/dev/shm/f"}

\* the Write Operations W right after construction, the registry empty
WriteConstructed(W) ==
  /\ writeMutexes = [p \in Paths |-> NoMutex]
  /\ wpc = [i \in W |-> "new"]
  /\ wattempt = [i \in W |-> 0]
  /\ wdelay = [i \in W |-> 0]
  /\ unlockCalls = [i \in W |-> 0]
  /\ wfinishCalls = [i \in W |-> 0]
  /\ werrorCalls = [i \in W |-> 0]
  /\ wlastError = [i \in W |-> NoError]
  /\ heldAtCallback = [i \in W |-> FALSE]
  /\ afterTerminal = [i \in W |-> 0]
  /\ content = [p \in Paths |-> <<>>]
  /\ writeLog = <<>>
  /\ grantLog = <<>>
  /\ termLog = <<>>

\* Write Operations W prepared from one File: the same path (one of P), any
\* payloads, write strategies of one of the kinds K; no write() called yet.
PreparedWrites(W, K, P) ==
  /\ \E k \in K :
       options = [readTimeout |-> 0,
                  readFileExistsRetryStrategy |-> "default",
                  readFileRetryStrategy |-> "default",
                  writeFileExistsRetryStrategy |-> k,
                  writeFileRetryStrategy |-> k]
  /\ \E p \in P : \E D \in [W -> UNION {DataInputs(i) : i \in W}] :
       /\ \A i \in W : D[i] \in DataInputs(i)
       /\ wop = [i \in W |-> [path |-> p, data |-> D[i]]]
  /\ WriteConstructed(W)

InitWrite ==
  /\ PreparedWrites(1..NumWriters, StrategyKinds, WritePaths)
  /\ ReadIdle


\* -------------------------------------------------- Write Operation
\* the observation counters stop counting at MaxCount
Bump(n) == IF n < MaxCount THEN n + 1 ELSE n

Path(i) == wop[i].path

\* the strategy of options[name] applied to (error, attempt, path)
WriteStrategyAnswers(name, error, attempt, p) ==
  IF options[name] = "custom" THEN CustomStrategy(error, attempt, p)
  ELSE IF options[name] = "undefined" THEN {UndefinedStrategy(error, attempt, p)}
  ELSE IF name = "writeFileExistsRetryStrategy"
       THEN {defaultWriteFileExistsRetryStrategy(error, attempt, p)}
       ELSE {defaultWriteFileRetryStrategy(error, attempt, p)}

\* a terminal callback of operation i has been invoked
wTerminal(i) == wfinishCalls[i] + werrorCalls[i] > 0

\* the callback invoked before unlock()
HolderSeenByCallback_CallbackFirst(before, after) == before

\* the operation that the callback observes as lock holder: the statements
\* are "unlock(); callback()", so the callback sees the lock after unlock
HolderSeenByCallback(before, after) == after

\* unlock() followed by the callback cb ("finish" or "error"); pcNext is where
\* the operation stands afterwards
UnlockThenCallback(i, cb, err, attempt, pcNext) ==
  LET p == mutexKey(Path(i))
      m2 == MutexUnlock(writeMutexes[p], i)
      g == IF writeMutexes[p].holder = i THEN m2.holder ELSE 0
  IN /\ writeMutexes' = [writeMutexes EXCEPT ![p] = m2]
     /\ unlockCalls' = [unlockCalls EXCEPT ![i] = Bump(@)]
     /\ wpc' = [j \in Writers |->
                  IF j = i THEN pcNext
                  ELSE IF j = g THEN "granted" ELSE wpc[j]]
     /\ grantLog' = IF g # 0 THEN Append(grantLog, g) ELSE grantLog
     /\ heldAtCallback' = [heldAtCallback EXCEPT
          ![i] = @ \/ (HolderSeenByCallback(writeMutexes[p].holder, m2.holder) = i)]
     /\ termLog' = IF wTerminal(i) THEN termLog ELSE Append(termLog, i)
     /\ wattempt' = [wattempt EXCEPT ![i] = IF pcNext = "done" THEN 0 ELSE attempt]
     /\ wdelay' = [wdelay EXCEPT ![i] = 0]
     /\ IF cb = "finish"
        THEN /\ wfinishCalls' = [wfinishCalls EXCEPT ![i] = Bump(@)]
             /\ UNCHANGED <<werrorCalls, wlastError>>
        ELSE /\ werrorCalls' = [werrorCalls EXCEPT ![i] = Bump(@)]
             /\ wlastError' = [wlastError EXCEPT ![i] = err]
             /\ UNCHANGED wfinishCalls

\* _performWrite(attempt, unlock)
performWrite(i, attempt) ==
  /\ afterTerminal' = [afterTerminal EXCEPT ![i] = IF wTerminal(i) THEN Bump(@) ELSE @]
  /\ UNCHANGED <<options, wop, writeLog>>
  /\ \/ \* _createWriteStream throws: fs.statSync fails on a /dev/ path
        /\ startsWithDev(Path(i))
        /\ UnlockThenCallback(i, "error", FsError("ENOENT", Path(i)), attempt, "done")
     \/ \* the stream is created, the payload is written and end() is called
        /\ ~writeThrows(wop[i].data)
        /\ wpc' = [wpc EXCEPT ![i] = "writing"]
        /\ wattempt' = [wattempt EXCEPT ![i] = attempt]
        /\ wdelay' = [wdelay EXCEPT ![i] = 0]
        /\ UNCHANGED <<writeMutexes, unlockCalls, wfinishCalls, werrorCalls,
                       wlastError, heldAtCallback, grantLog, termLog>>
     \/ \* the stream is created, writeStream.write throws: the catch block
        \* runs while the stream and its handlers stay behind
        /\ writeThrows(wop[i].data)
        /\ UnlockThenCallback(i, "error", NewError("ERR_INVALID_ARG_TYPE", 0, Path(i)),
                              attempt, "orphan")

\* write(): _execute requests the lock of the path
write(i) ==
  /\ wpc[i] = "new"
  /\ UNCHANGED rvars
  /\ LET p == mutexKey(Path(i))
         reg == getMutex(writeMutexes, p)
         m2 == MutexLock(reg[p], i)
     IN /\ writeMutexes' = [reg EXCEPT ![p] = m2]
        /\ wpc' = [wpc EXCEPT ![i] = IF m2.holder = i THEN "granted" ELSE "queued"]
        /\ grantLog' = IF m2.holder = i THEN Append(grantLog, i) ELSE grantLog
  /\ writeLog' = Append(writeLog, i)
  /\ UNCHANGED <<options, wop, wattempt, wdelay, unlockCalls, wfinishCalls, werrorCalls,
                 wlastError, heldAtCallback, afterTerminal, content, termLog>>

\* _isNamedPipe()
isNamedPipe(p) == statKind(p) = "fifo"

\* _waitForFileAndWrite(attempt, unlock)
waitForFileAndWrite(i, attempt) ==
  IF startsWithDev(Path(i)) \/ isNamedPipe(Path(i))
  THEN /\ wpc' = [wpc EXCEPT ![i] = "access"]
       /\ wattempt' = [wattempt EXCEPT ![i] = attempt]
       /\ wdelay' = [wdelay EXCEPT ![i] = 0]
       /\ UNCHANGED <<options, wop, writeMutexes, unlockCalls, wfinishCalls, werrorCalls,
                      wlastError, heldAtCallback, afterTerminal, content, writeLog,
                      grantLog, termLog>>
  ELSE IF parentDir(Path(i)) # ""
  THEN /\ wpc' = [wpc EXCEPT ![i] = "mkdir"]
       /\ wattempt' = [wattempt EXCEPT ![i] = attempt]
       /\ wdelay' = [wdelay EXCEPT ![i] = 0]
       /\ UNCHANGED <<options, wop, writeMutexes, unlockCalls, wfinishCalls, werrorCalls,
                      wlastError, heldAtCallback, afterTerminal, content, writeLog,
                      grantLog, termLog>>
  ELSE performWrite(i, 1) /\ UNCHANGED content

\* the mtx.lock() promise resolves: .then((unlock) => _waitForFileAndWrite(1, unlock))
lockGranted(i) ==
  /\ wpc[i] = "granted"
  /\ UNCHANGED rvars
  /\ waitForFileAndWrite(i, 1)

\* _handleFileExistsError(error, attempt, unlock)
handleFileExistsError(i, error, attempt) ==
  \E r \in WriteStrategyAnswers("writeFileExistsRetryStrategy", error, attempt, Path(i)) :
    IF r.kind = "raise"
    THEN /\ UnlockThenCallback(i, "error", r.error, attempt, "done")
         /\ UNCHANGED <<options, wop, afterTerminal, writeLog>>
    ELSE /\ wpc' = [wpc EXCEPT ![i] = "existsDelay"]
         /\ wdelay' = [wdelay EXCEPT ![i] = IF r.kind = "number" THEN r.delay ELSE NonNumberDelay]
         /\ UNCHANGED <<options, wop, writeMutexes, wattempt, unlockCalls, wfinishCalls,
                        werrorCalls, wlastError, heldAtCallback, afterTerminal,
                        writeLog, grantLog, termLog>>

\* the fs.access callback of _waitForFileAndWrite
writeAccessCallback(i) ==
  /\ wpc[i] = "access"
  /\ UNCHANGED rvars
  /\ UNCHANGED content
  /\ \/ performWrite(i, 1)
     \/ \E code \in ExistsErrorCodes :
          handleFileExistsError(i, FsError(code, Path(i)), wattempt[i])

\* what fs.mkdir can report: no error ("none") or an error code
MkdirResults == {"none", "EEXIST"} \cup ExistsErrorCodes

\* an existing directory treated as a failure
mkdirFailed_EexistToo(code) == code # "none"

\* err && err.code !== 'EEXIST'
mkdirFailed(code) == code \notin {"none", "EEXIST"}

\* the fs.mkdir callback of operation i is given this result
mkdirResult(i, code) ==
  IF mkdirFailed(code)
  THEN handleFileExistsError(i, FsError(code, Path(i)), wattempt[i])
  ELSE performWrite(i, 1)

\* the fs.mkdir callback of _waitForFileAndWrite
mkdirCallback(i) ==
  /\ wpc[i] = "mkdir"
  /\ UNCHANGED rvars
  /\ UNCHANGED content
  /\ \E code \in MkdirResults : mkdirResult(i, code)

\* the timer of _handleFileExistsError fires
existsTimer(i) ==
  /\ wpc[i] = "existsDelay"
  /\ UNCHANGED rvars
  /\ waitForFileAndWrite(i, wattempt[i] + 1)

\* writeStream 'finish'
writeStreamFinish(i) ==
  /\ wpc[i] = "writing"
  /\ UNCHANGED rvars
  /\ LET p == Path(i)
         b == encoded(wop[i].data)
     IN content' = IF hasContent(p)
                   THEN [content EXCEPT ![resolves(p)] = Stored(@, b, Len(b), createWriteStreamFlags(p))]
                   ELSE content
  /\ UnlockThenCallback(i, "finish", NoError, wattempt[i], "done")
  /\ UNCHANGED <<options, wop, afterTerminal, writeLog>>

\* writeStream 'error': n = -1 when the open failed, otherwise the number of
\* payload bytes that reached the file before the failure
writeStreamError(i) ==
  /\ wpc[i] \in {"writing", "orphan"}
  /\ UNCHANGED rvars
  /\ \E code \in StreamErrorCodes :
     \E n \in {-1} \cup (IF wpc[i] = "writing" THEN 0..(Len(encoded(wop[i].data)) - 1) ELSE {}) :
     \E r \in WriteStrategyAnswers("writeFileRetryStrategy", FsError(code, Path(i)), wattempt[i], Path(i)) :
       LET p == Path(i)
           stored == IF hasContent(p) /\ n >= 0
                     THEN [content EXCEPT ![resolves(p)] = Stored(@, encoded(wop[i].data), n, createWriteStreamFlags(p))]
                     ELSE content
       IN IF r.kind = "raise"
          THEN /\ content' = stored
               /\ UnlockThenCallback(i, "error", r.error, wattempt[i], "done")
               /\ afterTerminal' = [afterTerminal EXCEPT ![i] = IF wTerminal(i) THEN Bump(@) ELSE @]
               /\ UNCHANGED <<options, wop, writeLog>>
          ELSE IF r.kind = "number"
          THEN /\ content' = stored
               /\ wpc' = [wpc EXCEPT ![i] = "retryDelay"]
               /\ wdelay' = [wdelay EXCEPT ![i] = r.delay]
               /\ afterTerminal' = [afterTerminal EXCEPT ![i] = IF wTerminal(i) THEN Bump(@) ELSE @]
               /\ UNCHANGED <<options, wop, writeMutexes, wattempt, unlockCalls, wfinishCalls,
                              werrorCalls, wlastError, heldAtCallback, writeLog, grantLog, termLog>>
          ELSE /\ content' = stored
               /\ performWrite(i, wattempt[i] + 1)

\* the timer of the 'error' handler fires
retryTimer(i) ==
  /\ wpc[i] = "retryDelay"
  /\ UNCHANGED rvars
  /\ UNCHANGED content
  /\ performWrite(i, wattempt[i] + 1)

NextWrite ==
  \E i \in Writers :
    \/ write(i)
    \/ lockGranted(i)
    \/ writeAccessCallback(i)
    \/ mkdirCallback(i)
    \/ existsTimer(i)
    \/ writeStreamFinish(i)
    \/ writeStreamError(i)
    \/ retryTimer(i)

SpecWrite == InitWrite /\ [][NextWrite]_vars

\* the steps of Write Operations on regular files outside /dev/: the
\* destination is prepared by fs.mkdir, never checked by fs.access
NextWriteFile ==
  \E i \in Writers :
    \/ write(i)
    \/ lockGranted(i)
    \/ mkdirCallback(i)
    \/ existsTimer(i)
    \/ writeStreamFinish(i)
    \/ writeStreamError(i)
    \/ retryTimer(i)

\* Write Operations of a File constructed without write strategies
InitWriteDefault ==
  /\ InitWrite
  /\ options.writeFileExistsRetryStrategy = "default"
  /\ options.writeFileRetryStrategy = "default"

\* a stream that was written and end()ed reports 'finish' or 'error'
streamReports(i) ==
  /\ wpc[i] = "writing"
  /\ (writeStreamFinish(i) \/ writeStreamError(i))

\* a callback the event loop has pending for operation i: the resolved lock
\* promise, the fs.access or fs.mkdir callback, an armed timer, or the report
\* of an end()ed stream
writeCallbackRuns(i) ==
  \/ lockGranted(i)
  \/ writeAccessCallback(i)
  \/ mkdirCallback(i)
  \/ existsTimer(i)
  \/ retryTimer(i)
  \/ streamReports(i)

\* What the event loop and the filesystem guarantee: while callbacks are
\* pending, one of them runs.  Whether write() is called, and whether a stream
\* that was never end()ed fails to open, is left open.
WriteFairness == WF_vars(\E i \in Writers : writeCallbackRuns(i))

SpecWriteLive == InitWriteDefault /\ [][NextWrite]_vars /\ WriteFairness

\* MaxWriters Write Operations on one path, so that several acquirers can
\* wait for its lock at the same time
InitWriteQueue ==
  /\ PreparedWrites(1..MaxWriters, {"default"}, {"/tmp/d/a"})
  /\ ReadIdle

SpecWriteQueue == InitWriteQueue /\ [][NextWriteFile]_vars /\ WriteFairness

\* Two Files constructed with path strings that differ and name the same
\* file; one Write Operation prepared from each.
InitWriteAlias ==
  /\ \E k \in StrategyKinds :
       options = [readTimeout |-> 0,
                  readFileExistsRetryStrategy |-> "default",
                  readFileRetryStrategy |-> "default",
                  writeFileExistsRetryStrategy |-> k,
                  writeFileRetryStrategy |-> k]
  /\ \E D \in [1..NumWriters -> UNION {DataInputs(i) : i \in 1..NumWriters}] :
       /\ \A i \in 1..NumWriters : D[i] \in DataInputs(i)
       /\ wop = [i \in 1..NumWriters |->
                  [path |-> IF i = 1 THEN "/tmp/d/a" ELSE "/tmp/d/./a", data |-> D[i]]]
  /\ WriteConstructed(1..NumWriters)
  /\ ReadIdle

SpecWriteAlias == InitWriteAlias /\ [][NextWriteFile]_vars

\* Files constructed with pairwise different path strings, with the default
\* strategies; one Write Operation prepared from each.
InitWriteTwoPaths ==
  /\ options = [readTimeout |-> 0,
                readFileExistsRetryStrategy |-> "default",
                readFileRetryStrategy |-> "default",
                writeFileExistsRetryStrategy |-> "default",
                writeFileRetryStrategy |-> "default"]
  /\ \E P \in [1..NumWriters -> {"/tmp/d/a", "/tmp/d/./a", "/tmp/fifo", "/dev/shm/f"}] :
     \E D \in [1..NumWriters -> UNION {DataInputs(i) : i \in 1..NumWriters}] :
       /\ P[1] = "/tmp/d/a"
       /\ \A i, j \in 1..NumWriters : i # j => P[i] # P[j]
       /\ \A i \in 1..NumWriters : D[i] \in DataInputs(i)
       /\ wop = [i \in 1..NumWriters |-> [path |-> P[i], data |-> D[i]]]
  /\ WriteConstructed(1..NumWriters)
  /\ ReadIdle

SpecWriteTwoPaths == InitWriteTwoPaths /\ [][NextWrite]_vars


\* --------------------------------------------------- Read Operation
ReadTimeoutMs == 1000

ReadPaths == {"/tmp/d/a", "/tmp/fifo", "/dev/tty"}

InitRead ==
  /\ \E t \in {0, ReadTimeoutMs} : \E ke, kr \in StrategyKinds :
       options = [readTimeout |-> t,
                  readFileExistsRetryStrategy |-> ke,
                  readFileRetryStrategy |-> kr,
                  writeFileExistsRetryStrategy |-> "default",
                  writeFileRetryStrategy |-> "default"]
  /\ \E p \in ReadPaths : ReadConstructed(p)
  /\ WriteIdle

ReadStrategyAnswers(name, error, attempt, p) ==
  IF options[name] = "custom" THEN CustomStrategy(error, attempt, p)
  ELSE IF options[name] = "undefined" THEN {UndefinedStrategy(error, attempt, p)}
  ELSE IF name = "readFileExistsRetryStrategy"
       THEN {defaultReadFileExistsRetryStrategy(error, attempt, p)}
       ELSE {defaultReadFileRetryStrategy(error, attempt, p)}

\* no path is taken for a FIFO
isFIFO_Never(p) == FALSE

\* the streams the model lets one operation create: a FIFO reconnects and
\* can run several chains of retries, any other path runs a single chain
StreamLimit == IF statKind(rpath) = "fifo" THEN MaxStreams ELSE MaxFileStreams

\* _isFIFO()
isFIFO(p) == statKind(p) = "fifo"

\* the open flags _createReadStream ends up with
createReadStreamFlags(p) == IF startsWithDev(p) THEN "r+" ELSE "r"

\* every stream gets the FIFO 'end' handler
createReadStream_AlwaysFIFO(attempt) ==
  [state |-> "open", attempt |-> attempt, hasReceivedData |-> FALSE,
   isFIFO |-> TRUE, timer |-> options.readTimeout > 0,
   flags |-> createReadStreamFlags(rpath), pos |-> 0]

\* _createReadStream: the stream object; timer is the timeoutHandle, armed
\* when readTimeout > 0; pos is the number of bytes read from a regular file
\* whose content is known
createReadStream(attempt) ==
  [state |-> "open", attempt |-> attempt, hasReceivedData |-> FALSE,
   isFIFO |-> isFIFO(rpath), timer |-> options.readTimeout > 0,
   flags |-> createReadStreamFlags(rpath), pos |-> 0]

\* a timer callback: fn is the method it calls, attempt its argument
Timer(fn, attempt, delay) == [fn |-> fn, attempt |-> attempt, delay |-> delay]

\* the callback is never scheduled
setTimeout_Dropped(timeouts, stop, cb) == timeouts

\* _setTimeout(callback, delay): the armed timers afterwards
setTimeout(timeouts, stop, cb) ==
  IF stop THEN timeouts ELSE timeouts (+) SetToBag({cb})

\* the observation variables that no step but a callback invocation changes
robs == <<rchunks, rdataCalls, rfinishCalls, rerrorCalls, rlastError, lastDataAttempt, finishInvoked,
          naturalFinish, dataAfterFinish, dataAfterError, finishCbAfterFinish,
          fromDataFired, lateFinishFired, drainCalls, repeatFinish, received>>

\* _handleError(error)
handleError(error) ==
  /\ rerrorCalls' = Bump(rerrorCalls)
  /\ rlastError' = error
  /\ UNCHANGED <<rchunks, rdataCalls, rfinishCalls, lastDataAttempt, finishInvoked,
                 naturalFinish, dataAfterFinish, dataAfterError, finishCbAfterFinish,
                 fromDataFired, lateFinishFired, drainCalls, repeatFinish, received>>

\* read(): _execute
read ==
  /\ ~rstarted
  /\ rstarted' = TRUE
  /\ raccess' = IF stopReading THEN 0 ELSE 1
  /\ UNCHANGED <<options, rpath, stopReading, isFinished, activeStream, streams,
                 activeTimeouts, robs, askedAttempt, wvars>>

\* the fs.access callback of _waitForFileAndRead(attempt) is given an error
\* with this code: the existence strategy decides
readAccessError(code) ==
  \E r \in ReadStrategyAnswers("readFileExistsRetryStrategy",
                                FsError(code, rpath), raccess, rpath) :
    /\ askedAttempt' = raccess
    /\ IF r.kind = "raise"
       THEN /\ handleError(r.error)
            /\ UNCHANGED <<activeStream, streams, activeTimeouts>>
       ELSE /\ activeTimeouts' = setTimeout(activeTimeouts, stopReading,
                 Timer("waitForFileAndRead", raccess + 1,
                       IF r.kind = "number" THEN r.delay ELSE NonNumberDelay))
            /\ UNCHANGED <<activeStream, streams, robs>>

\* the fs.access callback of _waitForFileAndRead(attempt)
readAccessCallback ==
  /\ raccess > 0
  /\ raccess' = 0
  /\ UNCHANGED <<options, rpath, rstarted, stopReading, isFinished, wvars>>
  /\ IF stopReading
     THEN UNCHANGED <<activeStream, streams, activeTimeouts, robs, askedAttempt>>
     ELSE \/ \* the path is accessible: _performRead(1)
             /\ Len(streams) < StreamLimit
             /\ streams' = Append(streams, createReadStream(1))
             /\ activeStream' = Len(streams) + 1
             /\ askedAttempt' = 0
             /\ UNCHANGED <<activeTimeouts, robs>>
          \/ \E code \in ExistsErrorCodes : readAccessError(code)

\* the data handler without its _stopReading checks
dataHandlerRuns_Unguarded == TRUE

\* the data handler delivers only while the operation is not stopped
dataHandlerRuns == ~stopReading

\* finish() without its guard
finishTakesEffect_FlagsIgnored == TRUE

\* finish() takes effect only on an operation that is neither stopped nor finished
finishTakesEffect == ~stopReading /\ ~isFinished

\* what a finish() call adds to the record of repeated calls
repeatedFinish(repeated, effect) ==
  IF ~repeated THEN repeatFinish
  ELSE IF effect THEN 2
  ELSE IF repeatFinish = 0 THEN 1 ELSE repeatFinish

\* the streams after finish() destroyed the active one
destroyActive(strs, act) ==
  IF act = 0 THEN strs ELSE [strs EXCEPT ![act].state = "destroyed"]

\* the data handler without the reset of its attempt counter
attemptOnData_NoReset(str) == str.attempt

\* the data handler counting the chunks of its stream
attemptOnData_CountsChunks(str) == IF str.hasReceivedData THEN str.attempt + 1 ELSE 1

\* the attempt the data handler of a stream holds when it calls onData:
\* reset to 1 on the first chunk of the stream
attemptOnData(str) == IF str.hasReceivedData THEN str.attempt ELSE 1

\* the 'data' handler of stream s runs with the given chunk; emitted is the
\* streams after the emission; the consumer's onData may call the finish
\* function it is given
dataHandler(s, callsFinish, chunk, emitted) ==
  /\ UNCHANGED <<options, rpath, rstarted, activeTimeouts, raccess, rerrorCalls, rlastError,
                 naturalFinish, finishCbAfterFinish, lateFinishFired, wvars>>
  /\ IF ~dataHandlerRuns
     THEN /\ ~callsFinish
          /\ streams' = emitted
          /\ UNCHANGED <<stopReading, isFinished, activeStream, rdataCalls, rfinishCalls,
                         lastDataAttempt, finishInvoked, dataAfterFinish, dataAfterError,
                         fromDataFired, drainCalls, repeatFinish, received, askedAttempt>>
     ELSE LET delivered == [emitted EXCEPT ![s].hasReceivedData = TRUE,
                                      ![s].attempt = attemptOnData(streams[s])]
              effect == callsFinish /\ finishTakesEffect
          IN /\ rdataCalls' = Bump(rdataCalls)
             /\ received' = received \o chunk
             /\ askedAttempt' = IF streams[s].hasReceivedData THEN askedAttempt ELSE 0
             /\ lastDataAttempt' = delivered[s].attempt
             /\ dataAfterFinish' = (dataAfterFinish \/ finishInvoked)
             /\ dataAfterError' = (dataAfterError \/ rerrorCalls > 0)
             /\ finishInvoked' = (finishInvoked \/ callsFinish)
             /\ repeatFinish' = repeatedFinish(callsFinish /\ finishInvoked, effect)
             /\ fromDataFired' = IF callsFinish /\ fromDataFired = -1
                                 THEN (IF effect THEN 1 ELSE 0) ELSE fromDataFired
             /\ IF effect
                THEN /\ stopReading' = TRUE
                     /\ isFinished' = TRUE
                     /\ streams' = destroyActive(delivered, activeStream)
                     /\ drainCalls' = IF activeStream # 0 /\ isFIFO(rpath)
                                      THEN Bump(drainCalls) ELSE drainCalls
                     /\ activeStream' = 0
                     /\ rfinishCalls' = Bump(rfinishCalls)
                ELSE /\ streams' = delivered
                     /\ UNCHANGED <<stopReading, isFinished, activeStream, rfinishCalls, drainCalls>>

\* a 'data' event of stream s on a source whose bytes are not followed
readStreamData(s, callsFinish) ==
  /\ s \in 1..Len(streams)
  /\ streams[s].state = "open"
  /\ rchunks < MaxChunks
  /\ rchunks' = rchunks + 1
  /\ dataHandler(s, callsFinish, <<>>, streams)

\* finish() called by the consumer outside onData
finish ==
  /\ UNCHANGED <<options, rpath, rstarted, activeTimeouts, raccess, rchunks, rdataCalls,
                 rerrorCalls, rlastError, lastDataAttempt, naturalFinish, dataAfterFinish,
                 dataAfterError, fromDataFired, received, askedAttempt, wvars>>
  /\ finishInvoked' = TRUE
  /\ repeatFinish' = repeatedFinish(finishInvoked, finishTakesEffect)
  /\ IF finishTakesEffect
     THEN /\ stopReading' = TRUE
          /\ isFinished' = TRUE
          /\ streams' = destroyActive(streams, activeStream)
          /\ drainCalls' = IF activeStream # 0 /\ isFIFO(rpath)
                           THEN Bump(drainCalls) ELSE drainCalls
          /\ activeStream' = 0
          /\ rfinishCalls' = Bump(rfinishCalls)
          /\ finishCbAfterFinish' = (finishCbAfterFinish \/ finishInvoked)
          /\ lateFinishFired' = (lateFinishFired \/ naturalFinish \/ rerrorCalls > 0)
     ELSE UNCHANGED <<stopReading, isFinished, activeStream, streams, rfinishCalls,
                      drainCalls, finishCbAfterFinish, lateFinishFired>>

\* the reconnection counted as one more attempt
reconnectAttempt_Incremented(str) == str.attempt + 1

\* the attempt the FIFO 'end' handler of a stream passes on to _performRead
reconnectAttempt(str) == str.attempt

\* the 'end' event of stream s: reconnect for a FIFO, completion otherwise
readStreamEnd(s) ==
  /\ s \in 1..Len(streams)
  /\ streams[s].state = "open"
  /\ streams' = [streams EXCEPT ![s].state = "ended"]
  /\ UNCHANGED <<options, rpath, rstarted, stopReading, isFinished, raccess, rchunks,
                 rdataCalls, rerrorCalls, rlastError, lastDataAttempt, finishInvoked,
                 dataAfterFinish, dataAfterError, fromDataFired, lateFinishFired, drainCalls,
                 repeatFinish, received, askedAttempt, wvars>>
  /\ IF stopReading
     THEN UNCHANGED <<activeStream, activeTimeouts, rfinishCalls, naturalFinish,
                      finishCbAfterFinish>>
     ELSE /\ activeStream' = 0
          /\ IF streams[s].isFIFO
             THEN /\ activeTimeouts' = setTimeout(activeTimeouts, stopReading,
                        Timer("performRead", reconnectAttempt(streams[s]), ReconnectDelay))
                  /\ UNCHANGED <<rfinishCalls, naturalFinish, finishCbAfterFinish>>
             ELSE /\ rfinishCalls' = Bump(rfinishCalls)
                  /\ naturalFinish' = TRUE
                  /\ finishCbAfterFinish' = (finishCbAfterFinish \/ finishInvoked)
                  /\ UNCHANGED activeTimeouts

\* the error stream.destroy is given when the timeoutHandle fires
TimeoutError == NewError("read timeout", 0, rpath)

\* the 'error' handlers of stream s run with the given error: the timeout
\* handle is cleared, then the retry strategy decides
errorHandler(s, error) ==
  /\ UNCHANGED <<options, rpath, rstarted, stopReading, isFinished, raccess, wvars>>
  /\ IF stopReading
     THEN /\ streams' = [streams EXCEPT ![s].state = "errored", ![s].timer = FALSE]
          /\ UNCHANGED <<activeStream, activeTimeouts, robs, askedAttempt>>
     ELSE \E r \in ReadStrategyAnswers("readFileRetryStrategy", error, streams[s].attempt, rpath) :
            LET dead == [streams EXCEPT ![s].state = "errored", ![s].timer = FALSE]
            IN /\ askedAttempt' = streams[s].attempt
               /\ IF r.kind = "raise"
                  THEN /\ streams' = dead
                       /\ activeStream' = 0
                       /\ handleError(r.error)
                       /\ UNCHANGED activeTimeouts
                  ELSE IF r.kind = "number"
                  THEN /\ streams' = dead
                       /\ activeStream' = 0
                       /\ activeTimeouts' = setTimeout(activeTimeouts, stopReading,
                             Timer("performRead", streams[s].attempt + 1, r.delay))
                       /\ UNCHANGED robs
                  ELSE \* _performRead(attempt + 1) at once
                       /\ Len(streams) < StreamLimit
                       /\ streams' = Append(dead, createReadStream(streams[s].attempt + 1))
                       /\ activeStream' = Len(streams) + 1
                       /\ UNCHANGED <<activeTimeouts, robs>>

\* an I/O error of the open stream s
readStreamError(s) ==
  /\ s \in 1..Len(streams)
  /\ streams[s].state = "open"
  /\ \E code \in StreamErrorCodes : errorHandler(s, FsError(code, rpath))

\* the timeoutHandle of stream s fires: stream.destroy(new Error(... read timeout ...))
readTimeout(s) ==
  /\ s \in 1..Len(streams)
  /\ streams[s].timer
  /\ IF streams[s].state \in {"open", "ended"}
     THEN errorHandler(s, TimeoutError)
     ELSE /\ streams' = [streams EXCEPT ![s].timer = FALSE]
          /\ UNCHANGED <<options, rpath, rstarted, stopReading, isFinished, activeStream,
                         activeTimeouts, raccess, robs, askedAttempt, wvars>>

\* a _setTimeout timer fires
timerFires(t) ==
  /\ BagIn(t, activeTimeouts)
  /\ activeTimeouts' = activeTimeouts (-) SetToBag({t})
  /\ UNCHANGED <<options, rpath, rstarted, stopReading, isFinished, robs, askedAttempt, wvars>>
  /\ IF stopReading
     THEN UNCHANGED <<activeStream, streams, raccess>>
     ELSE IF t.fn = "waitForFileAndRead"
     THEN /\ raccess' = t.attempt
          /\ UNCHANGED <<activeStream, streams>>
     ELSE /\ Len(streams) < StreamLimit
          /\ streams' = Append(streams, createReadStream(t.attempt))
          /\ activeStream' = Len(streams) + 1
          /\ UNCHANGED raccess

NextRead ==
  \/ read
  \/ readAccessCallback
  \/ \E s \in 1..StreamLimit : \E callsFinish \in BOOLEAN : readStreamData(s, callsFinish)
  \/ finish
  \/ \E s \in 1..StreamLimit : readStreamEnd(s)
  \/ \E s \in 1..StreamLimit : readStreamError(s)
  \/ \E s \in 1..StreamLimit : readTimeout(s)
  \/ \E t \in BagToSet(activeTimeouts) : timerFires(t)

SpecRead == InitRead /\ [][NextRead]_vars

\* The engine reading a FIFO whose consumer never calls finish(), under the
\* event loop's guarantees: while an armed timer, a pending fs.access callback
\* or an armed read timeout is pending, one of them runs; and a writer that
\* has a reader on the path eventually writes.  The stream's 'end' and I/O
\* errors may or may not happen.
InitReadFifo ==
  /\ InitRead
  /\ statKind(rpath) = "fifo"
  /\ options.readFileExistsRetryStrategy = "default"

NextReadNoFinish ==
  \/ read
  \/ readAccessCallback
  \/ \E s \in 1..StreamLimit : readStreamData(s, FALSE)
  \/ \E s \in 1..StreamLimit : readStreamEnd(s)
  \/ \E s \in 1..StreamLimit : readStreamError(s)
  \/ \E s \in 1..StreamLimit : readTimeout(s)
  \/ \E t \in BagToSet(activeTimeouts) : timerFires(t)

readCallbackRuns ==
  \/ readAccessCallback
  \/ \E t \in BagToSet(activeTimeouts) : timerFires(t)
  \/ \E s \in 1..StreamLimit : readTimeout(s)

ReadFairness ==
  /\ WF_vars(readCallbackRuns)
  /\ WF_vars(\E s \in 1..StreamLimit : readStreamData(s, FALSE))

SpecReadLive == InitReadFifo /\ [][NextReadNoFinish]_vars /\ ReadFairness

\* An existing regular file that nobody writes to, read with a read timeout
\* and the default strategies; no stream fails with an I/O error.
InitReadTimeout ==
  /\ InitRead
  /\ options.readTimeout > 0
  /\ options.readFileExistsRetryStrategy = "default"
  /\ options.readFileRetryStrategy = "default"
  /\ statKind(rpath) = "file"

NextReadTimeout ==
  \/ read
  \/ readAccessCallback
  \/ \E s \in 1..StreamLimit : \E callsFinish \in BOOLEAN : readStreamData(s, callsFinish)
  \/ finish
  \/ \E s \in 1..StreamLimit : readStreamEnd(s)
  \/ \E s \in 1..StreamLimit : readTimeout(s)
  \/ \E t \in BagToSet(activeTimeouts) : timerFires(t)

SpecReadTimeout == InitReadTimeout /\ [][NextReadTimeout]_vars

\* One File constructed without options (no read timeout, the default
\* strategies): a Read Operation and a Write Operation prepared from it run
\* side by side on the same path.
InitReadWrite ==
  /\ PreparedWrites({1}, {"default"}, {"/tmp/fifo", "/tmp/d/a"})
  /\ ReadConstructed(wop[1].path)

NextReadWrite ==
  \/ NextWrite
  \/ read
  \/ readAccessCallback
  \/ \E s \in 1..StreamLimit : \E callsFinish \in BOOLEAN : readStreamData(s, callsFinish)
  \/ finish
  \/ \E s \in 1..StreamLimit : readStreamEnd(s)
  \/ \E s \in 1..StreamLimit : readStreamError(s)
  \/ \E t \in BagToSet(activeTimeouts) : timerFires(t)

SpecReadWrite == InitReadWrite /\ [][NextReadWrite]_vars

\* One File whose four strategies all return undefined, no read timeout: a
\* Read Operation and a Write Operation prepared from it.
InitUndefined ==
  /\ options = [readTimeout |-> 0,
                readFileExistsRetryStrategy |-> "undefined",
                readFileRetryStrategy |-> "undefined",
                writeFileExistsRetryStrategy |-> "undefined",
                writeFileRetryStrategy |-> "undefined"]
  /\ \E p \in WritePaths : \E d \in DataInputs(1) :
       wop = [i \in {1} |-> [path |-> p, data |-> d]]
  /\ WriteConstructed({1})
  /\ ReadConstructed(wop[1].path)

\* the steps of the two operations when no strategy returns a number: the
\* write engine arms no timer in its 'error' handler, and no read timeout is
\* armed
NextUndefined ==
  \/ \E i \in Writers :
       \/ write(i)
       \/ lockGranted(i)
       \/ writeAccessCallback(i)
       \/ mkdirCallback(i)
       \/ existsTimer(i)
       \/ writeStreamFinish(i)
       \/ writeStreamError(i)
  \/ read
  \/ readAccessCallback
  \/ \E s \in 1..StreamLimit : \E callsFinish \in BOOLEAN : readStreamData(s, callsFinish)
  \/ finish
  \/ \E s \in 1..StreamLimit : readStreamEnd(s)
  \/ \E s \in 1..StreamLimit : readStreamError(s)
  \/ \E t \in BagToSet(activeTimeouts) : timerFires(t)

SpecUndefined == InitUndefined /\ [][NextUndefined]_vars

\* One File with the default strategies on a source and a destination whose
\* streams all fail: no read stream delivers data or ends, no write stream
\* finishes, and the consumer does not call finish().
InitFailing ==
  /\ \E t \in {0, ReadTimeoutMs} :
       options = [readTimeout |-> t,
                  readFileExistsRetryStrategy |-> "default",
                  readFileRetryStrategy |-> "default",
                  writeFileExistsRetryStrategy |-> "default",
                  writeFileRetryStrategy |-> "default"]
  /\ \E p \in {"/tmp/d/a", "/tmp/fifo"} : \E d \in DataInputs(1) :
       wop = [i \in {1} |-> [path |-> p, data |-> d]]
  /\ WriteConstructed({1})
  /\ \E p \in {"/tmp/d/a", "/dev/tty"} : ReadConstructed(p)

NextFailing ==
  \/ \E i \in Writers :
       \/ write(i)
       \/ lockGranted(i)
       \/ writeAccessCallback(i)
       \/ mkdirCallback(i)
       \/ existsTimer(i)
       \/ writeStreamError(i)
       \/ retryTimer(i)
  \/ read
  \/ readAccessCallback
  \/ \E s \in 1..StreamLimit : readStreamError(s)
  \/ \E s \in 1..StreamLimit : readTimeout(s)
  \/ \E t \in BagToSet(activeTimeouts) : timerFires(t)

SpecFailing == InitFailing /\ [][NextFailing]_vars

\* a 'data' event of stream s on a source that has a chunk for every stream
readStreamDataAgain(s) ==
  /\ s \in 1..Len(streams)
  /\ streams[s].state = "open"
  /\ rchunks' = IF rchunks < MaxChunks THEN rchunks + 1 ELSE rchunks
  /\ dataHandler(s, FALSE, <<>>, streams)

\* an I/O error of stream s after it delivered data
readStreamErrorAfterData(s) ==
  /\ s \in 1..Len(streams)
  /\ streams[s].hasReceivedData
  /\ readStreamError(s)

\* A source whose every stream delivers data and then fails, read with the
\* default mid-stream strategy and no read timeout; the consumer does not
\* call finish().
InitReadDataThenFail ==
  /\ InitRead
  /\ options.readTimeout = 0
  /\ options.readFileRetryStrategy = "default"

NextReadDataThenFail ==
  \/ read
  \/ readAccessCallback
  \/ \E s \in 1..StreamLimit : readStreamDataAgain(s)
  \/ \E s \in 1..StreamLimit : readStreamErrorAfterData(s)
  \/ \E t \in BagToSet(activeTimeouts) : timerFires(t)

SpecReadDataThenFail == InitReadDataThenFail /\ [][NextReadDataThenFail]_vars

\* the next chunk of stream s on a regular file: at most HighWaterMark bytes
\* from its position
nextChunk(s) ==
  SubSeq(content[resolves(rpath)], streams[s].pos + 1,
         Min(streams[s].pos + HighWaterMark, Len(content[resolves(rpath)])))

\* a 'data' event of stream s on a regular file whose content is known
readFileData(s, callsFinish) ==
  /\ s \in 1..Len(streams)
  /\ streams[s].state = "open"
  /\ streams[s].pos < Len(content[resolves(rpath)])
  /\ rchunks' = IF rchunks < MaxChunks THEN rchunks + 1 ELSE rchunks
  /\ dataHandler(s, callsFinish, nextChunk(s),
                 [streams EXCEPT ![s].pos = @ + Len(nextChunk(s))])

\* the 'end' event of stream s on a regular file: every byte has been read
readFileEnd(s) ==
  /\ s \in 1..Len(streams)
  /\ streams[s].pos = Len(content[resolves(rpath)])
  /\ readStreamEnd(s)

\* the payloads of the round trip: empty, short, and longer than one read
\* buffer; a string with a character that takes two bytes
RoundTripPayloads ==
  {[type |-> "string", bytes |-> <<>>],
   [type |-> "string", bytes |-> <<65>>],
   [type |-> "string", bytes |-> <<233>> \o [k \in 1..HighWaterMark |-> 65]],
   [type |-> "buffer", bytes |-> <<>>],
   [type |-> "buffer", bytes |-> <<255>>],
   [type |-> "buffer", bytes |-> [k \in 1..(HighWaterMark + 1) |-> k]]}

\* One File on a regular file with the default strategies: a Write Operation
\* with payload P and a Read Operation.
InitRoundTrip ==
  /\ \E t \in {0, ReadTimeoutMs} :
       options = [readTimeout |-> t,
                  readFileExistsRetryStrategy |-> "default",
                  readFileRetryStrategy |-> "default",
                  writeFileExistsRetryStrategy |-> "default",
                  writeFileRetryStrategy |-> "default"]
  /\ \E d \in RoundTripPayloads : wop = [i \in {1} |-> [path |-> "/tmp/d/a", data |-> d]]
  /\ WriteConstructed({1})
  /\ ReadConstructed("/tmp/d/a")

\* read() is called after onFinish of the write
readAfterWrite == wfinishCalls[1] > 0 /\ read

\* the write, then the read of the whole file: the consumer never calls
\* finish(), and no read stream fails with an I/O error
NextRoundTrip ==
  \/ NextWriteFile
  \/ readAfterWrite
  \/ readAccessCallback
  \/ \E s \in 1..StreamLimit : readFileData(s, FALSE)
  \/ \E s \in 1..StreamLimit : readFileEnd(s)
  \/ \E s \in 1..StreamLimit : readTimeout(s)
  \/ \E t \in BagToSet(activeTimeouts) : timerFires(t)

SpecRoundTrip == InitRoundTrip /\ [][NextRoundTrip]_vars

\* ------------------------------------------------------------------
\* Claims about the write engine
\* ------------------------------------------------------------------
\* operation i is past AcquiringLock with filesystem work in flight or
\* scheduled: WaitingForDestination, a retry delay, or Writing
InFlight(i) == wpc[i] \in {"access", "mkdir", "existsDelay", "retryDelay", "writing"}

Holds(i) == writeMutexes[Path(i)].holder = i

\* C1: at most one Write Operation per path is past AcquiringLock with work
\* in flight, and no operation has filesystem work in flight while another
\* operation holds the lock of its path.
C1_OneInFlightPerPath ==
  /\ \A i, j \in Writers : (InFlight(i) /\ InFlight(j) /\ Path(i) = Path(j)) => i = j
  /\ \A i, j \in Writers : (InFlight(i) /\ Holds(j) /\ Path(i) = Path(j)) => i = j

\* C2: a Write Operation that was granted the lock calls unlock exactly once:
\* never twice, and once it has nothing left to do it has called it and does
\* not hold the lock.
C2_UnlockExactlyOnce ==
  \A i \in Writers :
    /\ unlockCalls[i] <= 1
    /\ wpc[i] = "done" => (unlockCalls[i] = 1 /\ ~Holds(i))

\* position of operation i in a log
Pos(log, i) == CHOOSE k \in 1..Len(log) : log[k] = i
InLog(log, i) == \E k \in 1..Len(log) : log[k] = i
Started(i) == wpc[i] \notin {"new", "queued", "granted"}

\* C3: writes on one path reach their terminal callback in the order of their
\* write() calls, and the whole retry sequence of an earlier write has ended
\* before a later one performs its first filesystem action.
C3_SubmissionOrder ==
  /\ termLog = SubSeq(writeLog, 1, Len(termLog))
  /\ \A i, j \in Writers :
       (InLog(writeLog, i) /\ InLog(writeLog, j) /\ Pos(writeLog, i) < Pos(writeLog, j)
          /\ Started(j)) => wpc[i] = "done"

\* every Write Operation has completed through onFinish
AllCompleted == \A i \in Writers : wpc[i] = "done" /\ wfinishCalls[i] > 0

LastGranted == grantLog[Len(grantLog)]

\* C4 as stated: N concurrent writes on any path complete N times in
\* lock-acquisition order and leave the payload of the last lock holder as
\* the content of the file.
C4_LastPayloadAnyPath ==
  AllCompleted =>
    /\ \A i \in Writers : wfinishCalls[i] = 1 /\ werrorCalls[i] = 0
    /\ termLog = grantLog
    /\ \A p \in Paths : (hasContent(p) /\ p = Path(LastGranted)) =>
                           content[p] = wop[LastGranted].data.bytes

\* C4 amended: the same, the content part for paths outside /dev/ (a path
\* under /dev/ is opened without truncation).
C4_LastPayload ==
  AllCompleted =>
    /\ \A i \in Writers : wfinishCalls[i] = 1 /\ werrorCalls[i] = 0
    /\ termLog = grantLog
    /\ \A p \in Paths : (hasContent(p) /\ ~startsWithDev(p) /\ p = Path(LastGranted)) =>
                           content[p] = wop[LastGranted].data.bytes

\* a regular file outside /dev/ was written by every operation, the longer
\* payload first
C4_Witness ==
  /\ AllCompleted
  /\ Path(1) = "/tmp/d/a"
  /\ grantLog[1] = 2
  /\ content["/tmp/d/a"] = wop[LastGranted].data.bytes

C6_OneTerminalCallback ==
  \A i \in Writers :
    /\ wfinishCalls[i] + werrorCalls[i] <= 1
    /\ afterTerminal[i] = 0


\* ------------------------------------------------------------------
\* Claims about the read engine
\* ------------------------------------------------------------------
\* C7: a Read Operation never invokes onData after finish() was called on it
\* nor after it reported a terminal error through onError.
C7_NoDataAfterTerminal == ~dataAfterFinish /\ ~dataAfterError

\* C8: a finish call made inside onData invokes onFinish exactly once, and
\* after it no onData and no further onFinish is invoked.
C8_FinishInsideOnData ==
  fromDataFired # -1 =>
    /\ fromDataFired = 1
    /\ ~dataAfterFinish
    /\ ~finishCbAfterFinish

\* finish was called inside onData on a FIFO, and a 'data' event that arrived
\* afterwards was not delivered
C8_Witness ==
  /\ fromDataFired = 1
  /\ isFIFO(rpath)
  /\ rchunks > rdataCalls

\* C9: over any sequence of events the onFinish callback of a Read Operation
\* is invoked at most once.
C9_FinishAtMostOnce == rfinishCalls <= 1

\* C10: a finish() call on an operation that already reached Finished by a
\* natural end-of-stream, or Errored, does not invoke onFinish.
C10_FinishIdempotentAfterTerminal == ~lateFinishFired

\* C11: a finish() call on a Read Operation after the first one has no effect:
\* it does not invoke onFinish, destroys no stream and writes nothing to the
\* path; the first call has set _stopReading and _isFinished for good.
C11_RepeatedFinishNoEffect ==
  /\ repeatFinish # 2
  /\ finishInvoked => (stopReading /\ isFinished /\ activeStream = 0)

\* finish() was called while a FIFO stream was active (the stream was
\* destroyed and the pipe drained), then called again: onFinish has fired once
C11_Witness ==
  /\ repeatFinish = 1
  /\ isFIFO(rpath)
  /\ drainCalls = 1
  /\ rfinishCalls = 1
  /\ \E s \in 1..Len(streams) : streams[s].state = "destroyed"

\* a non-FIFO 'end' handler invokes onFinish in this step
NaturalFinishStep ==
  \E s \in 1..Len(streams) :
    /\ streams[s].state = "open"
    /\ ~streams[s].isFIFO
    /\ ~stopReading
    /\ streams'[s].state = "ended"

\* C12: onError of a Read Operation is invoked at most once, and after it the
\* engine performs no existence check, opens no stream and invokes neither
\* onData nor (by itself) onFinish.
C12_ErrorIsTerminal ==
  /\ [](rerrorCalls <= 1 /\ ~dataAfterError)
  /\ [][rerrorCalls > 0 =>
          /\ Len(streams') = Len(streams)
          /\ (raccess' = 0 \/ raccess' = raccess)
          /\ ~NaturalFinishStep]_vars

\* C13: on a FIFO, end-of-stream never invokes onFinish and never makes the
\* operation terminal (no callback, no flag set; the reconnect timer is armed
\* unless the operation was stopped), and onFinish is invoked only as a
\* result of finish().
C13_FifoEndNotTerminal ==
  /\ [](statKind(rpath) = "fifo" =>
          (~naturalFinish /\ (rfinishCalls > 0 => finishInvoked)))
  /\ [][\A s \in 1..Len(streams) :
          (statKind(rpath) = "fifo" /\ streams[s].state = "open"
             /\ streams'[s].state = "ended") =>
            /\ rfinishCalls' = rfinishCalls
            /\ rerrorCalls' = rerrorCalls
            /\ stopReading' = stopReading
            /\ isFinished' = isFinished
            /\ (~stopReading =>
                  BagIn(Timer("performRead", streams[s].attempt, ReconnectDelay),
                        activeTimeouts'))]_vars

\* a FIFO stream ended, the engine reconnected, and no callback has fired
C13_Witness ==
  /\ statKind(rpath) = "fifo"
  /\ Len(streams) >= 2
  /\ streams[1].state = "ended"
  /\ streams[2].state = "open"
  /\ rfinishCalls = 0
  /\ rerrorCalls = 0

\* stream k of a FIFO has ended and finish() has not been called
FifoEnded(k) ==
  /\ statKind(rpath) = "fifo"
  /\ k <= Len(streams)
  /\ streams[k].state = "ended"
  /\ ~finishInvoked

\* a stream opened after stream k has delivered a chunk to onData
DeliveredAfter(k) == \E s \in (k + 1)..Len(streams) : streams[s].hasReceivedData

\* the model's bounds leave no room for a further stream or a further chunk
ReadBoundsReached == Len(streams) >= StreamLimit \/ rchunks >= MaxChunks

\* C14 as stated: after a FIFO end-of-stream without finish(), a new stream
\* is opened and the chunks of a later writer are delivered to onData.
C14_ReconnectDelivers ==
  \A k \in 1..MaxStreams :
    FifoEnded(k) ~> (DeliveredAfter(k) \/ finishInvoked \/ ReadBoundsReached)

\* C14 amended: after a FIFO end-of-stream without finish(), a new stream is
\* opened, and the chunks of a later writer are delivered to onData one by one
\* as they are emitted, unless the operation reports a terminal error through
\* onError first.
C14_ReconnectDeliversUnlessError ==
  /\ \A k \in 1..MaxStreams :
       FifoEnded(k) ~> (Len(streams) > k \/ finishInvoked \/ ReadBoundsReached)
  /\ \A k \in 1..MaxStreams :
       FifoEnded(k) ~> (DeliveredAfter(k) \/ rerrorCalls > 0 \/ finishInvoked
                          \/ ReadBoundsReached)
  /\ [](~finishInvoked => (rdataCalls = rchunks \/ rdataCalls = MaxCount))

\* a FIFO stream ended, the engine reconnected and the new stream delivered a
\* chunk, with neither finish() nor an error
C14_Witness ==
  /\ statKind(rpath) = "fifo"
  /\ Len(streams) = 2
  /\ streams[1].state = "ended"
  /\ ~streams[1].hasReceivedData
  /\ streams[2].hasReceivedData
  /\ rdataCalls = 1
  /\ ~finishInvoked
  /\ rerrorCalls = 0

\* C15: the attempt passed to onData with the first chunk a stream delivers
\* is 1, whatever attempt the stream was opened with.
C15_FirstChunkAttemptOne ==
  [][\A s \in 1..Len(streams) :
       (~streams[s].hasReceivedData /\ streams'[s].hasReceivedData) =>
         lastDataAttempt' = 1]_vars

\* the first stream failed before any data, the retry opened the second
\* stream with attempt 2, and its first chunk reached onData with attempt 1
C15_Witness ==
  /\ options.readTimeout = 0
  /\ Len(streams) = 2
  /\ streams[1].state = "errored"
  /\ ~streams[1].hasReceivedData
  /\ streams[2].hasReceivedData
  /\ rdataCalls = 1
  /\ lastDataAttempt = 1

\* the message of an error of the default strategies contains "retries"
ContainsRetries(msg) ==
  msg \in {"Device not available after retries", "File not found after retries",
           "Failed to read file after retries", "Failed to write to file after retries"}

\* the number of existence checks the default strategy allows on path p
ChecksAllowed(p) == IF startsWithDev(p) THEN DeviceMaxAttempts ELSE RegularMaxAttempts

\* the wait after the k-th failed existence check on path p
WaitAfter(p, k) ==
  IF startsWithDev(p) THEN DeviceBackoff * Min(k, DeviceBackoffCap) ELSE RegularBackoff * k

StreamErrors == {FsError(code, rpath) : code \in StreamErrorCodes}
                  \cup {TimeoutError}

\* what the existence strategy can answer to the check in flight
ExistsAnswers ==
  UNION {ReadStrategyAnswers("readFileExistsRetryStrategy", FsError(code, rpath), raccess, rpath) :
           code \in ExistsErrorCodes}

\* what the mid-stream strategy can answer to an error of stream s
StreamAnswers(s) ==
  UNION {ReadStrategyAnswers("readFileRetryStrategy", e, streams[s].attempt, rpath) :
           e \in StreamErrors}

\* stream s stops in this step through its 'error' handler
DiesNow(s) == streams[s].state \in {"open", "ended"} /\ streams'[s].state = "errored"

\* onError is invoked in this step: with a value a strategy raised on the
\* input of this step
RaisedValueDelivered ==
  (rerrorCalls' # rerrorCalls \/ rlastError' # rlastError) =>
    \/ /\ raccess > 0
       /\ \E r \in ExistsAnswers : r.kind = "raise" /\ rlastError' = r.error
    \/ \E s \in 1..Len(streams) :
         /\ DiesNow(s)
         /\ \E r \in StreamAnswers(s) : r.kind = "raise" /\ rlastError' = r.error

\* after a strategy raised, the operation checks, opens and schedules nothing
NoAttemptAfterRaise ==
  rerrorCalls > 0 =>
    /\ Len(streams') = Len(streams)
    /\ (raccess' = 0 \/ raccess' = raccess)
    /\ \A t \in BagToSet(activeTimeouts') :
         CopiesIn(t, activeTimeouts') <= CopiesIn(t, activeTimeouts)

\* a retry timer armed in this step carries the delay the strategy returned
\* and the attempt of the failed step plus one
RetryAfterReturnedDelay ==
  \A t \in BagToSet(activeTimeouts') :
    CopiesIn(t, activeTimeouts') > CopiesIn(t, activeTimeouts) =>
      \/ /\ t.fn = "waitForFileAndRead"
         /\ raccess > 0
         /\ t.attempt = raccess + 1
         /\ \E r \in ExistsAnswers :
              \/ r.kind = "number" /\ t.delay = r.delay
              \/ r.kind = "nonNumber" /\ t.delay = NonNumberDelay
      \/ /\ t.fn = "performRead"
         /\ \E s \in 1..Len(streams) :
              \/ /\ DiesNow(s)
                 /\ t.attempt = streams[s].attempt + 1
                 /\ \E r \in StreamAnswers(s) : r.kind = "number" /\ t.delay = r.delay
              \/ /\ streams[s].state = "open" /\ streams'[s].state = "ended"
                 /\ streams[s].isFIFO
                 /\ t.attempt = streams[s].attempt
                 /\ t.delay = ReconnectDelay

\* C17: when a retry strategy raises, the raised value reaches onError
\* unchanged and the operation makes no further attempt; when it returns a
\* number d, the step is retried after d ms with the attempt incremented.
C17_RaiseAndDelay ==
  /\ [][RaisedValueDelivered]_vars
  /\ [][NoAttemptAfterRaise]_vars
  /\ [][RetryAfterReturnedDelay]_vars

\* C18: reading an existing regular file with readTimeout > 0 and the default
\* strategies (the file was found: a stream was opened), the error onError
\* delivers is the read-timeout error.
C18_TimeoutErrorDelivered ==
  (streams # <<>> /\ rerrorCalls > 0) => rlastError = TimeoutError

\* C19: on a path that is not a FIFO, the 'end' of an open stream invokes
\* onFinish once, and by then every chunk the streams emitted has been
\* delivered to onData (each in the step it was emitted).
C19_NonFifoEndFinishes ==
  [][\A s \in 1..Len(streams) :
       (statKind(rpath) # "fifo" /\ streams[s].state = "open"
          /\ streams'[s].state = "ended") =>
         /\ rfinishCalls' = Bump(rfinishCalls)
         /\ naturalFinish'
         /\ rdataCalls' = rdataCalls
         /\ (rdataCalls = rchunks \/ rdataCalls = MaxCount)]_vars

\* a regular file was read: two chunks delivered, then 'end' and onFinish
C19_Witness ==
  /\ statKind(rpath) = "file"
  /\ Len(streams) = 1
  /\ streams[1].state = "ended"
  /\ rchunks = 2
  /\ rdataCalls = 2
  /\ rfinishCalls = 1
  /\ naturalFinish
  /\ ~finishInvoked

\* ------------------------------------------------------------------
\* Termination of the write engine
\* ------------------------------------------------------------------
\* C20: under the default write strategies every Write Operation that is
\* granted the lock reaches onFinish or onError, and on the way no existence
\* check runs with an attempt above 10 and no stream attempt above 5.
C20_WriteTerminates ==
  /\ \A i \in 1..NumWriters : (wpc[i] = "granted") ~> wTerminal(i)
  /\ [](\A i \in Writers :
          /\ wpc[i] \in {"access", "mkdir", "existsDelay"} =>
               wattempt[i] \in 1..DeviceMaxAttempts
          /\ wpc[i] \in {"writing", "retryDelay", "orphan"} =>
               wattempt[i] \in 1..StreamMaxAttempts)

\* a write went through the existence check and used up its five stream
\* attempts
C20_Witness ==
  \E i \in Writers :
    /\ wpc[i] = "done"
    /\ werrorCalls[i] = 1
    /\ wfinishCalls[i] = 0
    /\ wlastError[i].message = "Failed to write to file after retries"
    /\ wlastError[i].attempt = StreamMaxAttempts

LockFree(p) == writeMutexes[p].holder = 0 /\ writeMutexes[p].queue = <<>>

\* C22: a Read Operation takes no part in the locking.  A step of the Read
\* Operation changes neither the registry nor a Write Operation; its read(),
\* its pending existence check and the 'data' of its open stream are possible
\* whoever holds the lock of the path; and a write() is granted the lock at
\* once exactly when no Write Operation holds it or waits for it, whatever
\* the Read Operation is doing.
C22_ReadsIgnoreLock ==
  /\ [][rvars' # rvars => wvars' = wvars]_vars
  /\ [][\A i \in Writers :
          (wpc[i] = "new" /\ wpc'[i] # "new") =>
            wpc'[i] = (IF LockFree(Path(i)) THEN "granted" ELSE "queued")]_vars
  /\ [](~rstarted => ENABLED read)
  /\ [](raccess > 0 => ENABLED readAccessCallback)
  /\ [](\A s \in 1..Len(streams) :
          (streams[s].state = "open" /\ rchunks < MaxChunks) =>
            ENABLED readStreamData(s, FALSE))

\* a Write Operation holds the lock of the path (it waits in a retry delay)
\* while the Read Operation on the same path has a stream open that has
\* delivered a chunk
C22_Witness ==
  /\ rpath = Path(1)
  /\ Holds(1)
  /\ wpc[1] \in {"existsDelay", "retryDelay"}
  /\ Len(streams) = 1
  /\ streams[1].state = "open"
  /\ rdataCalls = 1

\* ------------------------------------------------------------------
\* Round trip
\* ------------------------------------------------------------------
\* the code points a sequence of UTF-8 bytes decodes to
RECURSIVE utf8Decode(_)
utf8Decode(b) ==
  IF b = <<>> THEN <<>>
  ELSE IF b[1] < 128 THEN <<b[1]>> \o utf8Decode(Tail(b))
  ELSE IF Len(b) >= 2 /\ b[1] \in 192..223 /\ b[2] \in 128..191
       THEN <<(b[1] - 192) * 64 + (b[2] - 128)>> \o utf8Decode(Tail(Tail(b)))
       ELSE <<65533>> \o utf8Decode(Tail(b))

IsPrefix(a, b) == Len(a) <= Len(b) /\ a = SubSeq(b, 1, Len(a))

\* C23: a payload P written to a regular file and, after onFinish of the
\* write, read back: the chunks given to onData are at every moment a prefix
\* of the bytes of P, and once onFinish of the read has fired their
\* concatenation is P byte for byte (for a string: its UTF-8 bytes, which
\* decode to P).
C23_RoundTrip ==
  /\ IsPrefix(received, encoded(wop[1].data))
  /\ rfinishCalls > 0 =>
       /\ received = encoded(wop[1].data)
       /\ wop[1].data.type = "string" => utf8Decode(received) = wop[1].data.bytes

\* ------------------------------------------------------------------
\* Path strings and locks
\* ------------------------------------------------------------------
\* C24: two Write Operations whose path strings differ and resolve to the
\* same file are never both past AcquiringLock and not yet terminal.
C24_AliasesExcluded ==
  \A i, j \in Writers :
    (InFlight(i) /\ InFlight(j) /\ resolves(Path(i)) = resolves(Path(j))) => i = j

\* operation i has been granted the lock and none of its callbacks has fired
GrantedNotTerminal(i) ==
  /\ wpc[i] \in {"granted", "access", "mkdir", "existsDelay", "retryDelay", "writing"}
  /\ ~wTerminal(i)

\* operation i waits in a retry gap: between existence rechecks or between
\* write attempts
InRetryGap(i) == GrantedNotTerminal(i) /\ wpc[i] \in {"existsDelay", "retryDelay"}

\* C25: from the grant to its terminal callback a Write Operation holds the
\* lock of its path and has not called unlock, in every existence recheck,
\* retry delay and write attempt; and while it waits in a retry gap no other
\* Write Operation on the path has filesystem work in flight or scheduled.
C25_HeldUntilTerminal ==
  /\ \A i \in Writers : GrantedNotTerminal(i) => (Holds(i) /\ unlockCalls[i] = 0)
  /\ \A i, j \in Writers :
       (i # j /\ Path(i) = Path(j) /\ InRetryGap(i)) => ~InFlight(j)

\* ------------------------------------------------------------------
\* Timers of the read engine
\* ------------------------------------------------------------------
\* the timeout handle of stream s fires in this step
TimeoutFires(s) == streams[s].timer /\ ~streams'[s].timer /\ streams'[s].state # "open"

\* C26: the read-timeout timer of a stream is armed only while the stream is
\* open: it is cancelled by 'end', by 'error' and by the destroy() of
\* finish(); a timeout fires only for an open stream, and no stream is opened
\* and no retry scheduled by the timeout of a stream that had ended or been
\* destroyed, nor is onError invoked by it.
C26_TimeoutCancelledAtEnd ==
  /\ [](\A s \in 1..Len(streams) : streams[s].timer => streams[s].state = "open")
  /\ [][\A s \in 1..Len(streams) :
          (TimeoutFires(s) /\ streams[s].state # "open") =>
            /\ Len(streams') = Len(streams)
            /\ activeTimeouts' = activeTimeouts
            /\ rerrorCalls' = rerrorCalls]_vars

\* the streams that can still emit 'data'
OpenStreams == {s \in 1..Len(streams) : streams[s].state = "open"}

\* the armed timers that will open a stream
PendingReopens ==
  LET R == {t \in BagToSet(activeTimeouts) : t.fn = "performRead"}
      RECURSIVE Sum(_)
      Sum(S) == IF S = {} THEN 0
                ELSE LET t == CHOOSE x \in S : TRUE
                     IN CopiesIn(t, activeTimeouts) + Sum(S \ {t})
  IN Sum(R)

\* C27: a Read Operation has at most one open stream and at most one reopen
\* scheduled at any time.
C27_OneStreamOneReopen ==
  /\ Cardinality(OpenStreams) <= 1
  /\ PendingReopens <= 1

\* ------------------------------------------------------------------
\* Failures and strategies
\* ------------------------------------------------------------------
\* what the write existence strategy can raise for the step operation i waits on
WriteExistsRaises(i) ==
  {r.error : r \in {a \in UNION {WriteStrategyAnswers("writeFileExistsRetryStrategy",
                                      FsError(code, Path(i)), wattempt[i], Path(i)) :
                                    code \in ExistsErrorCodes} : a.kind = "raise"}}

\* what the write stream strategy can raise for the attempt of operation i
WriteStreamRaises(i) ==
  {r.error : r \in {a \in UNION {WriteStrategyAnswers("writeFileRetryStrategy",
                                      FsError(code, Path(i)), wattempt[i], Path(i)) :
                                    code \in StreamErrorCodes} : a.kind = "raise"}}

\* onError of a Write Operation is invoked in this step: with a value its
\* strategy raised for the failure of this step
WriteRaisedValueDelivered ==
  \A i \in Writers :
    (werrorCalls'[i] # werrorCalls[i] \/ wlastError'[i] # wlastError[i]) =>
      \/ wpc[i] \in {"access", "mkdir"} /\ wlastError'[i] \in WriteExistsRaises(i)
      \/ wpc[i] \in {"writing", "orphan"} /\ wlastError'[i] \in WriteStreamRaises(i)

\* C28: onError of a Read or Write Operation is only ever invoked with a
\* value that the retry strategy of the failed step raised when it was
\* consulted for that failure (existence check, directory creation, stream
\* open or stream I/O).
C28_OnlyRaisedValues ==
  /\ [][RaisedValueDelivered]_vars
  /\ [][WriteRaisedValueDelivered]_vars

\* ------------------------------------------------------------------
\* finish() and what it leaves behind
\* ------------------------------------------------------------------
\* C29: once finish() has been called on a Read Operation, no timer of the
\* operation is armed: no existence recheck, retry or reconnect timer, and no
\* read-timeout timer of any of its streams.
C29_NoTimerAfterFinish ==
  finishInvoked =>
    /\ activeTimeouts = EmptyBag
    /\ \A s \in 1..Len(streams) : ~streams[s].timer

\* a finish() call takes effect in this step
FinishEffectStep == ~stopReading /\ stopReading'

\* C30: a finish() call that takes effect on a started Read Operation
\* performs the zero-length write to the path exactly when the path is a
\* FIFO, whatever the operation was doing (stream open, reconnect delay,
\* existence wait, retry delay).
C30_DrainOnFifoFinish ==
  [][(rstarted /\ FinishEffectStep) =>
        ((drainCalls' = drainCalls + 1) <=> isFIFO(rpath))]_vars

\* ------------------------------------------------------------------
\* After finish()
\* ------------------------------------------------------------------
\* a step of an operation on which finish() has taken effect: no callback is
\* invoked, no existence check is started and no stream is opened
QuietAfterFinish ==
  stopReading =>
    /\ rdataCalls' = rdataCalls
    /\ rfinishCalls' = rfinishCalls
    /\ rerrorCalls' = rerrorCalls
    /\ rlastError' = rlastError
    /\ Len(streams') = Len(streams)
    /\ (raccess' = 0 \/ raccess' = raccess)
    /\ stopReading'

\* the step in which finish() takes effect invokes onFinish once and onError
\* not at all; it starts no check and opens no stream
FinishTakesEffectOnce ==
  (~stopReading /\ stopReading') =>
    /\ rfinishCalls' = rfinishCalls + 1 \/ rfinishCalls = MaxCount
    /\ rerrorCalls' = rerrorCalls
    /\ Len(streams') = Len(streams)
    /\ raccess' = raccess

\* C31: after finish() takes effect on a Read Operation, the operation
\* invokes no callback other than the single onFinish of that call, starts no
\* existence check and opens no stream, in whichever state finish() arrived;
\* read() called after finish() does nothing.
C31_QuietAfterFinish ==
  /\ [][QuietAfterFinish]_vars
  /\ [][FinishTakesEffectOnce]_vars
  /\ []((stopReading /\ ~rstarted) => (raccess = 0 /\ streams = <<>>))

\* finish() arrived while a timer was armed and an existence check or a
\* stream had gone before; the timer has fired since
C31_Witness ==
  /\ stopReading
  /\ rstarted
  /\ rfinishCalls = 1
  /\ rerrorCalls = 0
  /\ activeTimeouts = EmptyBag
  /\ raccess = 0
  /\ activeStream = 0
  /\ \A s \in 1..Len(streams) : streams[s].state = "errored"
  /\ streams # <<>>

\* ------------------------------------------------------------------
\* Attempt numbers
\* ------------------------------------------------------------------
\* the existence strategy is consulted in this step: the fs.access callback
\* of a running operation reports an error
ExistsAsked ==
  /\ raccess > 0 /\ raccess' = 0
  /\ ~stopReading
  /\ Len(streams') = Len(streams)

\* the mid-stream strategy is consulted in this step for stream s
StreamAsked(s) == ~stopReading /\ DiesNow(s)

\* the strategy consulted in this step is given the attempt that follows the
\* one given on the previous failure of the phase, and 1 on the first failure
\* of the phase or after a reset
NextAttemptAsked ==
  /\ ExistsAsked => raccess = askedAttempt + 1
  /\ \A s \in 1..Len(streams) : StreamAsked(s) => streams[s].attempt = askedAttempt + 1

\* C32: every attempt value passed to a retry strategy or to onData is >= 1;
\* within one phase (existence waiting, or streaming since the last reset) the
\* values passed to the strategy on consecutive failures are 1, 2, 3, ...,
\* increasing by exactly 1 per failed attempt and never decreasing except at a
\* reset to 1.
C32_AttemptsCountUp ==
  /\ [](rdataCalls > 0 => lastDataAttempt >= 1)
  /\ [](raccess >= 0 /\ \A s \in 1..Len(streams) : streams[s].attempt >= 1)
  /\ [][NextAttemptAsked]_vars

\* the FIFO 'end' handler of stream s runs in this step on a running operation
FifoEndStep(s) ==
  /\ streams[s].isFIFO
  /\ streams[s].state = "open" /\ streams'[s].state = "ended"
  /\ ~stopReading

\* the end of a FIFO stream consults no strategy (nothing is reported, no
\* stream is opened at once, no retry is scheduled): it arms the one
\* reconnect timer, which carries the attempt of the ended stream
EndArmsReconnect ==
  \A s \in 1..Len(streams) :
    FifoEndStep(s) =>
      /\ rerrorCalls' = rerrorCalls /\ rlastError' = rlastError
      /\ askedAttempt' = askedAttempt
      /\ Len(streams') = Len(streams)
      /\ activeTimeouts' = activeTimeouts (+)
           SetToBag({Timer("performRead", streams[s].attempt, ReconnectDelay)})

\* a stream opened by a reconnect timer starts with the attempt of a stream
\* that ended
ReconnectKeepsAttempt ==
  \A t \in BagToSet(activeTimeouts) :
    (/\ t.delay = ReconnectDelay
     /\ CopiesIn(t, activeTimeouts') < CopiesIn(t, activeTimeouts)
     /\ Len(streams') = Len(streams) + 1) =>
      /\ streams'[Len(streams')].attempt = t.attempt
      /\ \E k \in 1..Len(streams) :
           /\ streams[k].isFIFO /\ streams[k].state \in {"ended", "errored"}
           /\ streams[k].attempt = t.attempt

\* the attempt of a stream changes only when its first chunk is delivered,
\* and then to 1
AttemptChangesAtFirstChunk ==
  \A s \in 1..Len(streams) :
    streams'[s].attempt # streams[s].attempt =>
      ~streams[s].hasReceivedData /\ streams'[s].hasReceivedData /\ streams'[s].attempt = 1

\* C33: a FIFO end-of-stream is not counted as a failed attempt: neither
\* retry strategy is consulted for it, and the stream reopened after the 50 ms
\* reconnect delay starts with the attempt value the ended stream had (1 if
\* that stream delivered data, otherwise the value it was opened with).
C33_FifoEndKeepsAttempt ==
  /\ [][EndArmsReconnect]_vars
  /\ [][ReconnectKeepsAttempt]_vars
  /\ [][AttemptChangesAtFirstChunk]_vars
  /\ [](\A s \in 1..Len(streams) : streams[s].hasReceivedData => streams[s].attempt = 1)

\* a stream opened with attempt 2 ended without data; the stream opened by
\* the reconnect timer has attempt 2 as well
C33_Witness ==
  /\ options.readTimeout = 0
  /\ Len(streams) = 3
  /\ streams[1].state = "errored"
  /\ streams[2].state = "ended" /\ streams[2].attempt = 2 /\ ~streams[2].hasReceivedData
  /\ streams[3].state = "open" /\ streams[3].attempt = 2
  /\ activeTimeouts = EmptyBag
  /\ rerrorCalls = 0

\* ------------------------------------------------------------------
\* Strategies that return no number
\* ------------------------------------------------------------------
\* the read existence strategy returned undefined: the check is repeated
\* with attempt + 1 after NonNumberDelay, nothing is reported
ReadExistsRetried ==
  (ExistsAsked /\ raccess < MaxAttempt) =>
    /\ activeTimeouts' = activeTimeouts (+)
         SetToBag({Timer("waitForFileAndRead", raccess + 1, NonNumberDelay)})
    /\ rerrorCalls' = rerrorCalls
    /\ ~stopReading'

\* the mid-stream read strategy returned undefined: a stream is opened in the
\* same step with attempt + 1, no timer is armed, nothing is reported
ReadStreamRetried ==
  \A s \in 1..Len(streams) :
    (StreamAsked(s) /\ streams[s].attempt < MaxAttempt) =>
      /\ Len(streams') = Len(streams) + 1
      /\ streams'[Len(streams')].state = "open"
      /\ streams'[Len(streams')].attempt = streams[s].attempt + 1
      /\ activeTimeouts' = activeTimeouts
      /\ rerrorCalls' = rerrorCalls

\* the write existence strategy returned undefined: a timer of NonNumberDelay
\* is armed, and when it fires the step is repeated with attempt + 1
WriteExistsRetried ==
  \A i \in Writers :
    /\ (wpc[i] \in {"access", "mkdir"} /\ wpc'[i] = "existsDelay") =>
         /\ wdelay'[i] = NonNumberDelay
         /\ wattempt'[i] = wattempt[i]
         /\ werrorCalls'[i] = werrorCalls[i]
    /\ (wpc[i] = "existsDelay" /\ wpc'[i] # "existsDelay") =>
         /\ wpc'[i] \in {"access", "mkdir"}
         /\ wattempt'[i] = wattempt[i] + 1

\* the 'error' handler of a write stream runs in this step
WriteStreamFails(i) ==
  /\ wpc[i] \in {"writing", "orphan"}
  /\ wfinishCalls'[i] = wfinishCalls[i]
  /\ <<wpc'[i], wattempt'[i], werrorCalls'[i], unlockCalls'[i]>> #
       <<wpc[i], wattempt[i], werrorCalls[i], unlockCalls[i]>>

\* the write strategy returned undefined: the write is attempted again in the
\* same step with attempt + 1, the operation neither ends nor reports
WriteStreamRetried ==
  \A i \in Writers :
    (WriteStreamFails(i) /\ wattempt[i] < MaxAttempt) =>
      /\ wpc'[i] = "writing"
      /\ wattempt'[i] = wattempt[i] + 1
      /\ werrorCalls'[i] = werrorCalls[i]
      /\ unlockCalls'[i] = unlockCalls[i]

ReadFailureCounted ==
  \A s \in 1..Len(streams) :
    StreamAsked(s) =>
      IF streams[s].attempt < StreamMaxAttempts
      THEN /\ activeTimeouts' = activeTimeouts (+)
                SetToBag({Timer("performRead", streams[s].attempt + 1, StreamRetryDelay)})
           /\ rerrorCalls' = rerrorCalls
      ELSE /\ rerrorCalls' = rerrorCalls + 1
           /\ activeTimeouts' = activeTimeouts
           /\ Len(streams') = Len(streams)

\* the read streams are opened one after the other, the k-th as attempt k;
\* onError after a stream was opened means StreamMaxAttempts streams were
\* opened and failed, and nothing is pending
ReadGivesUpAfterMax ==
  /\ \A s \in 1..Len(streams) : streams[s].attempt = s
  /\ OpenStreams = {} \/ OpenStreams = {Len(streams)}
  /\ (streams # <<>> /\ rerrorCalls > 0) =>
       /\ Len(streams) = StreamMaxAttempts
       /\ rerrorCalls = 1
       /\ activeTimeouts = EmptyBag
       /\ OpenStreams = {}

\* a failed write stream is followed by a timer of StreamRetryDelay while
\* fewer than StreamMaxAttempts attempts were made, and by the release of the
\* lock and onError after that
WriteFailureCounted ==
  \A i \in Writers :
    WriteStreamFails(i) =>
      IF wattempt[i] < StreamMaxAttempts
      THEN /\ wpc'[i] = "retryDelay" /\ wdelay'[i] = StreamRetryDelay
           /\ wattempt'[i] = wattempt[i]
           /\ werrorCalls'[i] = werrorCalls[i]
           /\ unlockCalls'[i] = unlockCalls[i]
      ELSE /\ wpc'[i] = "done"
           /\ Holds(i) /\ ~Holds(i)'
           /\ werrorCalls'[i] = werrorCalls[i] + 1

\* when the timer fires the next write attempt is made, and nothing is reported
WriteRetried ==
  \A i \in Writers :
    (wpc[i] = "retryDelay" /\ wpc'[i] # "retryDelay") =>
      /\ wpc'[i] = "writing"
      /\ wattempt'[i] = wattempt[i] + 1
      /\ werrorCalls'[i] = werrorCalls[i]

\* C35: with the default stream-failure strategy and a stream that fails on
\* every open without delivering data, a Read Operation opens exactly 5
\* streams, waiting 100 ms between consecutive opens, and then invokes onError
\* once; a Write Operation likewise makes exactly 5 write attempts 100 ms
\* apart, then releases the lock and invokes onError once.
C35_FiveAttempts ==
  /\ [][ReadFailureCounted]_vars
  /\ []ReadGivesUpAfterMax
  /\ [][WriteFailureCounted]_vars
  /\ [][WriteRetried]_vars
  /\ [](\A i \in Writers : werrorCalls[i] <= 1)

\* ------------------------------------------------------------------
\* The default existence strategies and errors other than ENOENT
\* ------------------------------------------------------------------
NonRetryableCodes == ExistsErrorCodes \ {"ENOENT"}

\* the existence check of the running Read Operation fails with this code
ReadCheckFails(code) == readAccessCallback /\ ~stopReading /\ readAccessError(code)

\* the existence check or directory creation of Write Operation i fails with
\* this code
WriteCheckFails(i, code) ==
  /\ writeAccessCallback(i) \/ mkdirCallback(i)
  /\ handleFileExistsError(i, FsError(code, Path(i)), wattempt[i])

\* the read ends there: onError is given the error of the check, and no
\* check, timer or stream is left
ReadFailsAtOnce ==
  \A code \in NonRetryableCodes :
    ReadCheckFails(code) =>
      /\ rerrorCalls' = rerrorCalls + 1
      /\ rlastError' = FsError(code, rpath)
      /\ raccess' = 0
      /\ activeTimeouts' = EmptyBag
      /\ streams' = <<>>
      /\ rfinishCalls' = rfinishCalls /\ rdataCalls' = rdataCalls

\* the write ends there: the lock is released, then onError is given the
\* error of the check, and no timer is armed
WriteFailsAtOnce ==
  \A i \in Writers : \A code \in NonRetryableCodes :
    WriteCheckFails(i, code) =>
      /\ Holds(i) /\ ~Holds(i)'
      /\ unlockCalls'[i] = unlockCalls[i] + 1
      /\ werrorCalls'[i] = werrorCalls[i] + 1
      /\ wlastError'[i] = FsError(code, Path(i))
      /\ ~heldAtCallback'[i]
      /\ wpc'[i] = "done"
      /\ wfinishCalls'[i] = wfinishCalls[i]

\* C36: with the default existence strategies, an existence-check or
\* directory-creation failure whose code is not ENOENT terminates the
\* operation at once: onError receives that same error object, no retry is
\* scheduled, and for a Write Operation the lock is released before onError.
C36_OtherCodesFailAtOnce ==
  /\ [][ReadFailsAtOnce]_vars
  /\ [][WriteFailsAtOnce]_vars
  /\ [](\A i \in Writers : wpc[i] = "done" => ~ENABLED (NextWrite /\ wpc'[i] # wpc[i]))

\* both operations were ended by an EACCES of their first check
C36_Witness ==
  /\ rerrorCalls = 1 /\ rlastError = FsError("EACCES", rpath)
  /\ streams = <<>> /\ activeTimeouts = EmptyBag /\ raccess = 0
  /\ werrorCalls[1] = 1 /\ wlastError[1] = FsError("EACCES", Path(1))
  /\ wpc[1] = "done" /\ unlockCalls[1] = 1
  /\ LockFree(Path(1))

\* ------------------------------------------------------------------
\* Parent directories
\* ------------------------------------------------------------------
\* a step that opens the first write stream of operation i
FirstOpen(i) ==
  /\ wpc[i] \notin {"writing", "orphan", "retryDelay", "done"}
  /\ wpc'[i] \in {"writing", "orphan"}

\* operation i, once granted the lock, calls fs.mkdir for the parent
\* directory, and opens its first stream only from the callback of fs.mkdir
MkdirBeforeOpen(i) ==
  /\ (wpc[i] = "granted" /\ wpc'[i] # "granted") =>
       wpc'[i] = "mkdir" /\ wattempt'[i] = 1
  /\ (wpc[i] = "existsDelay" /\ wpc'[i] # "existsDelay") => wpc'[i] = "mkdir"
  /\ FirstOpen(i) => wpc[i] = "mkdir"

\* "already exists" goes on to the first write attempt: a stream is opened,
\* and the existence strategy has no part in the step
ExistingDirProceeds(i) ==
  (mkdirCallback(i) /\ mkdirResult(i, "EEXIST")) =>
    /\ wpc'[i] \in {"writing", "orphan"}
    /\ wattempt'[i] = 1
    /\ wdelay'[i] = 0
    /\ wpc'[i] = "writing" => werrorCalls'[i] = werrorCalls[i] /\ Holds(i)'

\* any other failure: what follows is what the write existence strategy
\* answers to (error, current attempt, path); the lock stays held unless the
\* strategy raises
OtherFailureAsksStrategy(i) ==
  \A code \in ExistsErrorCodes :
    (mkdirCallback(i) /\ mkdirResult(i, code)) =>
      \E r \in WriteStrategyAnswers("writeFileExistsRetryStrategy",
                                     FsError(code, Path(i)), wattempt[i], Path(i)) :
        IF r.kind = "raise"
        THEN /\ wpc'[i] = "done"
             /\ wlastError'[i] = r.error
             /\ werrorCalls'[i] = werrorCalls[i] + 1
        ELSE /\ wpc'[i] = "existsDelay"
             /\ wdelay'[i] = (IF r.kind = "number" THEN r.delay ELSE NonNumberDelay)
             /\ wattempt'[i] = wattempt[i]
             /\ Holds(i) /\ Holds(i)'
             /\ werrorCalls'[i] = werrorCalls[i]

\* a custom existence strategy that raises is given the attempt in progress
StrategySeesAttempt(i) ==
  (wpc[i] = "mkdir" /\ wpc'[i] = "done" /\ wlastError'[i].message = "custom") =>
    wlastError'[i].attempt = wattempt[i] /\ wattempt[i] >= 1

\* C37 as stated, for every path that names a regular file: the write engine
\* creates the missing parent directories before opening the stream; an
\* "already exists" result proceeds to Writing without consulting the retry
\* strategy, and any other directory-creation failure is passed to the write
\* existence strategy with the current attempt number while the lock stays
\* held.
C37_MkdirForRegularFiles ==
  [][\A i \in Writers :
       (statKind(Path(i)) = "file" /\ parentDir(Path(i)) # "") =>
         /\ MkdirBeforeOpen(i)
         /\ ExistingDirProceeds(i)
         /\ OtherFailureAsksStrategy(i)
         /\ StrategySeesAttempt(i)]_vars

\* C37, amended: the same for a regular file whose path does not start with
\* /dev/; a path under /dev/ is checked with fs.access and no directory is
\* created for it.
C37_MkdirOutsideDev ==
  [][\A i \in Writers :
       (statKind(Path(i)) = "file" /\ ~startsWithDev(Path(i)) /\ parentDir(Path(i)) # "") =>
         /\ MkdirBeforeOpen(i)
         /\ ExistingDirProceeds(i)
         /\ OtherFailureAsksStrategy(i)
         /\ StrategySeesAttempt(i)]_vars

\* on a regular file outside /dev/ the directory creation failed once; the
\* lock still held, fs.mkdir is called again as attempt 2
C37_Witness ==
  \E i \in Writers :
    /\ statKind(Path(i)) = "file" /\ ~startsWithDev(Path(i))
    /\ wpc[i] = "mkdir" /\ wattempt[i] = 2
    /\ Holds(i)
    /\ werrorCalls[i] = 0 /\ unlockCalls[i] = 0

\* ------------------------------------------------------------------
\* The attempt seen by onData
\* ------------------------------------------------------------------
\* onData is invoked in this step
DataDelivered == rdataCalls' # rdataCalls \/ Len(received') > Len(received)

\* C38: the attempt value passed to onData is exactly 1 for every chunk of
\* every stream of a Read Operation, not only for the first chunk after a
\* (re)connection: no onData invocation ever observes an attempt greater
\* than 1.
C38_OnDataAttemptAlwaysOne ==
  /\ [](rdataCalls > 0 => lastDataAttempt = 1)
  /\ [][DataDelivered => lastDataAttempt' = 1]_vars

\* the first stream failed without data, the second was opened with attempt 2
\* and has delivered two chunks, the second of them with attempt 1 as well
C38_Witness ==
  /\ Len(streams) = 2
  /\ streams[1].state = "errored" /\ ~streams[1].hasReceivedData
  /\ streams[2].state = "open" /\ streams[2].hasReceivedData
  /\ rdataCalls = 2
  /\ lastDataAttempt = 1

\* ------------------------------------------------------------------
\* Failures after data
\* ------------------------------------------------------------------
\* a stream that delivered data fails: the mid-stream strategy is given
\* attempt 1, so the default strategy answers with its delay and the reopen
\* is scheduled as attempt 2; nothing is reported
FailureAfterDataIsFirst ==
  \A s \in 1..Len(streams) :
    (StreamAsked(s) /\ streams[s].hasReceivedData) =>
      /\ streams[s].attempt = 1
      /\ askedAttempt' = 1
      /\ activeTimeouts' = activeTimeouts (+)
           SetToBag({Timer("performRead", 2, StreamRetryDelay)})
      /\ rerrorCalls' = rerrorCalls

\* C39: when a read stream fails after having delivered at least one chunk,
\* the mid-stream retry strategy is invoked with attempt 1 for that failure;
\* consequently a source whose every stream delivers data and then fails is
\* retried indefinitely under the default strategy and the Read Operation
\* never reaches Errored.
C39_RetriedForever ==
  /\ [][FailureAfterDataIsFirst]_vars
  /\ [](streams # <<>> => rerrorCalls = 0)
  /\ [](\A s \in 1..Len(streams) :
          streams[s].state = "errored" =>
            \/ s < Len(streams)
            \/ activeTimeouts = SetToBag({Timer("performRead", 2, StreamRetryDelay)}))

\* StreamMaxAttempts streams delivered data and failed, one after the other;
\* onError was not invoked and the next open is scheduled
C39_Witness ==
  /\ Len(streams) = StreamMaxAttempts
  /\ \A s \in 1..Len(streams) : streams[s].state = "errored" /\ streams[s].hasReceivedData
  /\ rerrorCalls = 0
  /\ activeTimeouts = SetToBag({Timer("performRead", 2, StreamRetryDelay)})

\* ------------------------------------------------------------------
\* Write Operations on different path strings
\* ------------------------------------------------------------------
\* a step of Write Operation i: its write() call or one of its callbacks
WriterStep(i) ==
  \/ write(i)
  \/ lockGranted(i)
  \/ writeAccessCallback(i)
  \/ mkdirCallback(i)
  \/ existsTimer(i)
  \/ writeStreamFinish(i)
  \/ writeStreamError(i)
  \/ retryTimer(i)

\* operation i has a step still to come: write() was not called, or a
\* callback of its chain is pending
HasPendingStep(i) ==
  wpc[i] \in {"new", "granted", "access", "mkdir", "existsDelay", "retryDelay", "writing"}

\* write() of an operation is granted the lock of its path in that very call
GrantedAtWrite ==
  \A i \in Writers :
    (wpc[i] = "new" /\ wpc'[i] # "new") =>
       /\ wpc'[i] = "granted"
       /\ writeMutexes'[Path(i)].holder = i
       /\ writeMutexes'[Path(i)].queue = <<>>

\* a step of one operation leaves the lock and the chain of the operation on
\* the other path as they were
OtherPathUntouched ==
  \A i, j \in Writers :
    (i # j /\ wpc'[i] # wpc[i]) =>
       /\ wpc'[j] = wpc[j]
       /\ wattempt'[j] = wattempt[j]
       /\ unlockCalls'[j] = unlockCalls[j]
       /\ (Path(j) \in DOMAIN writeMutexes =>
             writeMutexes'[Path(j)] = writeMutexes[Path(j)])

====
